---- MODULE Spec2Model ----
(***************************************************************************)
(* Model of the PowerOcean response normalization of class Ecoflow         *)
(* (src/ecoflow.py): the topology resolver _get_serial_numbers, the        *)
(* extractors __get_sensors_* and the assembler _get_sensors, together     *)
(* with the instance attributes they read and write.                       *)
(*                                                                         *)
(* JSON values are tagged records; a Python dict is the sequence of its    *)
(* items in insertion order; a Python exception is the name of its class.  *)
(***************************************************************************)
EXTENDS Integers, Sequences, FiniteSets, TLC

(***************************************************************************)
(* JSON values as json_loads produces them                                 *)
(***************************************************************************)
JStr(s) == [t |-> "str", s |-> s]

JInt(i) == [t |-> "int", i |-> i]

JBool(b) == [t |-> "bool", b |-> b]

JDict(items) == [t |-> "dict", items |-> items]

JList(elems) == [t |-> "list", elems |-> elems]

NoneV == [t |-> "none"]

\* an instance attribute that no assignment has created yet
Unset == [t |-> "unset"]

Item(k, v) == [k |-> k, v |-> v]

Abs(n) == IF n < 0 THEN -n ELSE n

(***************************************************************************)
(* Python floats are IEEE 754 doubles.  A float is (-1)^neg * m * 2^e,     *)
(* where m is a natural number written as its bits, most significant       *)
(* first: at most 53 bits, the last one 1; zero has no bits.  Arithmetic   *)
(* is exact on the bits and then rounded to nearest, ties to even.         *)
(***************************************************************************)
Float(neg, m, e) == [t |-> "float", neg |-> neg, m |-> m, e |-> e]

\* 0.0
FZero == Float(FALSE, <<>>, 0)

\* the float that an overflowing addition gives
Inf(neg) == Float(neg, <<1>>, 1024)

\* the float that inf - inf gives: not a number
NaN == Float(FALSE, <<1, 1>>, 1024)

IsNaN(x) == x.m = <<1, 1>> /\ x.e = 1024

IsInf(x) == Len(x.m) + x.e > 1024 /\ ~IsNaN(x)

\* the number of bits of a natural number below 2^31
BitLen(n) == Cardinality({k \in 0..30 : 2^k <= n})

\* the len bits of n
BitsTo(n, len) == [i \in 1..len |-> (n \div 2^(len - i)) % 2]

BitsOf(n) == BitsTo(n, BitLen(n))

\* the natural number of fewer than 31 bits
RECURSIVE NatVal(_)
NatVal(bits) ==
  IF bits = <<>> THEN 0 ELSE 2 * NatVal(SubSeq(bits, 1, Len(bits) - 1)) + bits[Len(bits)]

Zeros(k) == [i \in 1..k |-> 0]

\* the bit of weight 2^k
BitAt(a, k) == IF k < Len(a) THEN a[Len(a) - k] ELSE 0

\* without leading zeros
Trim(a) ==
  IF \A i \in 1..Len(a) : a[i] = 0 THEN <<>>
  ELSE SubSeq(a, CHOOSE i \in 1..Len(a) : a[i] = 1 /\ \A j \in 1..(i - 1) : a[j] = 0,
              Len(a))

Max(a, b) == IF a < b THEN b ELSE a

Min(a, b) == IF a < b THEN a ELSE b

\* the bits of weight 2^lo to 2^hi of a + b, after the lower bits st with
\* their carry; a range is added by halves, the lower half first
AddBit(st, s) == [c |-> (s + st.c) \div 2, bits |-> <<(s + st.c) % 2>> \o st.bits]

RECURSIVE AddRange(_, _, _, _, _)
AddRange(a, b, lo, hi, st) ==
  IF lo > hi THEN st
  ELSE IF lo = hi THEN AddBit(st, BitAt(a, lo) + BitAt(b, lo))
  ELSE CHOOSE r \in {AddRange(a, b, (lo + hi) \div 2 + 1, hi, low) :
                       low \in {AddRange(a, b, lo, (lo + hi) \div 2, st)}} : TRUE

Carried(st) == IF st.c = 1 THEN <<1>> \o st.bits ELSE st.bits

NatAdd(a, b) ==
  Carried(AddRange(a, b, 0, Max(Len(a), Len(b)) - 1, [c |-> 0, bits |-> <<>>]))

\* the bits of a - b likewise, for a >= b; c is the borrow
SubBit(st, s) == [c |-> IF s - st.c < 0 THEN 1 ELSE 0, bits |-> <<(s - st.c + 2) % 2>> \o st.bits]

RECURSIVE SubRange(_, _, _, _, _)
SubRange(a, b, lo, hi, st) ==
  IF lo > hi THEN st
  ELSE IF lo = hi THEN SubBit(st, BitAt(a, lo) - BitAt(b, lo))
  ELSE CHOOSE r \in {SubRange(a, b, (lo + hi) \div 2 + 1, hi, low) :
                       low \in {SubRange(a, b, lo, (lo + hi) \div 2, st)}} : TRUE

NatSub(a, b) == Trim(SubRange(a, b, 0, Len(a) - 1, [c |-> 0, bits |-> <<>>]).bits)

NatLess(a, b) ==
  IF Len(a) # Len(b) THEN Len(a) < Len(b)
  ELSE \E i \in 1..Len(a) : a[i] < b[i] /\ \A j \in 1..(i - 1) : a[j] = b[j]

\* a * 2^k
Shl(a, k) == IF a = <<>> THEN <<>> ELSE a \o Zeros(k)

\* one step of the long division by d: rem is the remainder with the next bit
DivBit(d, q, rem) ==
  IF NatLess(rem, d) THEN [q |-> Append(q, 0), r |-> rem]
  ELSE [q |-> Append(q, 1), r |-> NatSub(rem, d)]

\* the long division of the bits lo to hi of n, after the bits before them;
\* with no remainder, bits that are zero give quotient bits that are zero
RECURSIVE DivRange(_, _, _, _, _)
DivRange(n, d, lo, hi, st) ==
  IF lo > hi THEN st
  ELSE IF st.r = <<>> /\ \A i \in lo..hi : n[i] = 0
    THEN [q |-> st.q \o Zeros(hi - lo + 1), r |-> <<>>]
  ELSE IF lo = hi
    THEN DivBit(d, st.q, IF st.r = <<>> /\ n[lo] = 0 THEN <<>> ELSE Append(st.r, n[lo]))
  ELSE CHOOSE r \in {DivRange(n, d, (lo + hi) \div 2 + 1, hi, first) :
                       first \in {DivRange(n, d, lo, (lo + hi) \div 2, st)}} : TRUE

\* the quotient q and the remainder r of n by d
NatDivMod(n, d) == DivRange(n, d, 1, Len(n), [q |-> <<>>, r |-> <<>>])

\* the canonical float of a rounded m * 2^e
Canon(neg, m, e) ==
  IF \A i \in 1..Len(m) : m[i] = 0 THEN Float(neg, <<>>, 0)
  ELSE IF Len(m) + e > 1024 THEN Inf(neg)
  ELSE Float(neg,
             SubSeq(m, 1, CHOOSE i \in 1..Len(m) :
                            m[i] = 1 /\ \A j \in (i + 1)..Len(m) : m[j] = 0),
             e + Len(m) - (CHOOSE i \in 1..Len(m) :
                             m[i] = 1 /\ \A j \in (i + 1)..Len(m) : m[j] = 0))

\* the number of leading bits a double keeps: 53, fewer below 2^-1022
Kept(len, e) == IF len + e + 1074 < 53 THEN len + e + 1074 ELSE 53

\* round to nearest, ties to even; sticky says that n * 2^e is below the value
RoundsUp(n, kept, sticky) ==
  /\ n[kept + 1] = 1
  /\ \/ sticky
     \/ \E i \in (kept + 2)..Len(n) : n[i] = 1
     \/ kept > 0 /\ n[kept] = 1

RoundTo(neg, n, e, sticky, kept) ==
  IF kept < 0 THEN Float(neg, <<>>, 0)
  ELSE IF kept >= Len(n) THEN Canon(neg, n, e)
  ELSE Canon(neg,
             IF RoundsUp(n, kept, sticky) THEN NatAdd(SubSeq(n, 1, kept), <<1>>)
             ELSE SubSeq(n, 1, kept),
             e + Len(n) - kept)

Round(neg, n, e, sticky) == RoundTo(neg, n, e, sticky, Kept(Len(n), e))

\* qr is the quotient and the remainder of a division scaled by 2^-e
QuotRounded(neg, qr, e) == Round(neg, Trim(qr.q), e, qr.r # <<>>)

\* the bits to append to n so that the quotient by d has at least 55 bits
Scale(n, d) == IF 55 + Len(d) - Len(n) > 0 THEN 55 + Len(d) - Len(n) ELSE 0

\* the double nearest to (n / d) * 2^e, for n and d not zero
QuotRound(neg, n, d, e) ==
  QuotRounded(neg, NatDivMod(Shl(n, Scale(n, d)), d), e - Scale(n, d))

\* float(i)
FromInt(i) == Canon(i < 0, BitsOf(Abs(i)), 0)

\* X and Y are the operands' bits at the common exponent e
AddAligned(xneg, X, yneg, Y, e) ==
  IF xneg = yneg THEN Round(xneg, NatAdd(X, Y), e, FALSE)
  ELSE IF X = Y THEN Float(FALSE, <<>>, 0)
  ELSE IF NatLess(X, Y) THEN Round(yneg, NatSub(Y, X), e, FALSE)
  ELSE Round(xneg, NatSub(X, Y), e, FALSE)

\* a float that is a whole number below 2^30
IsWhole(x) == x.e >= 0 /\ Len(x.m) + x.e <= 30

WholeOf(x) == (IF x.neg THEN -1 ELSE 1) * NatVal(x.m) * 2^x.e

\* x + y; the sum of two whole numbers below 2^30 is exact
FAdd(x, y) ==
  IF IsNaN(x) \/ IsNaN(y) THEN NaN
  ELSE IF IsInf(x) THEN IF IsInf(y) /\ x.neg # y.neg THEN NaN ELSE x
  ELSE IF IsInf(y) THEN y
  ELSE IF x.m = <<>> /\ y.m = <<>> THEN Float(x.neg /\ y.neg, <<>>, 0)
  ELSE IF x.m = <<>> THEN y
  ELSE IF y.m = <<>> THEN x
  ELSE IF IsWhole(x) /\ IsWhole(y) THEN FromInt(WholeOf(x) + WholeOf(y))
  ELSE AddAligned(x.neg, Shl(x.m, x.e - Min(x.e, y.e)),
                  y.neg, Shl(y.m, y.e - Min(x.e, y.e)), Min(x.e, y.e))

\* x / y for y not zero
FDiv(x, y) ==
  IF IsNaN(x) THEN NaN
  ELSE IF x.m = <<>> THEN Float(x.neg # y.neg, <<>>, 0)
  ELSE IF IsInf(x) THEN Inf(x.neg # y.neg)
  ELSE QuotRound(x.neg # y.neg, x.m, y.m, x.e - y.e)

\* the float num / den of two ints, den > 0; a whole quotient is exact
JFloat(num, den) ==
  IF num % den = 0 THEN FromInt(num \div den) ELSE FDiv(FromInt(num), FromInt(den))

(***************************************************************************)
(* str methods used by the source                                          *)
(***************************************************************************)
EndsWith(s, suf) ==
  /\ Len(s) >= Len(suf)
  /\ SubSeq(s, Len(s) - Len(suf) + 1, Len(s)) = suf

StartsWith(s, pre) ==
  /\ Len(s) >= Len(pre)
  /\ SubSeq(s, 1, Len(pre)) = pre

Contains(s, sub) ==
  \E i \in 1..(Len(s) - Len(sub) + 1) : SubSeq(s, i, i + Len(sub) - 1) = sub

\* re.compile("mppt.*Code").match(key): anchored at the start only
\* and the dot matches any character but a line feed
MatchMpptCode(key) ==
  /\ StartsWith(key, "mppt")
  /\ \E i \in 5..(Len(key) - 3) :
       /\ SubSeq(key, i, i + 3) = "Code"
       /\ \A j \in 5..(i - 1) : SubSeq(key, j, j) # "\n"

(***************************************************************************)
(* dict operations; a result is [exc |-> "" or exception class, val |-> _] *)
(***************************************************************************)
Ok(v) == [exc |-> "", val |-> v]

Raise(e) == [exc |-> e, val |-> NoneV]

\* the statements F that follow a statement r, unless r raised
Bind(r, F(_)) == IF r.exc # "" THEN Raise(r.exc) ELSE F(r.val)

DictKeys(items) == [n \in 1..Len(items) |-> items[n].k]

HasKey(items, k) == \E n \in 1..Len(items) : items[n].k = k

Lookup(items, k) == items[CHOOSE n \in 1..Len(items) : items[n].k = k].v

\* v[k] for a str key k
GetItem(v, k) ==
  IF v.t = "dict"
  THEN IF HasKey(v.items, k) THEN Ok(Lookup(v.items, k)) ELSE Raise("KeyError")
  ELSE Raise("TypeError")

\* v.keys() / v.items(): only a dict has them
KeysOf(v) == IF v.t = "dict" THEN Ok(v) ELSE Raise("AttributeError")

\* d[k] = v on an insertion-ordered dict
SetItemIfAbsent(items, k, v) ==
  IF HasKey(items, k) THEN items ELSE Append(items, Item(k, v))

SetItem(items, k, v) ==
  IF HasKey(items, k)
  THEN [n \in 1..Len(items) |-> IF items[n].k = k THEN Item(k, v) ELSE items[n]]
  ELSE Append(items, Item(k, v))

\* dict.update(sensors, data)
RECURSIVE Update(_, _)
Update(sensors, data) ==
  IF data = <<>> THEN sensors
  ELSE Update(SetItem(sensors, Head(data).k, Head(data).v), Tail(data))

(***************************************************************************)
(* Decimal text of a natural number, as "%i" and f"{i}" print it           *)
(***************************************************************************)
Digit(n) ==
  CASE n = 0 -> "0" [] n = 1 -> "1" [] n = 2 -> "2" [] n = 3 -> "3"
    [] n = 4 -> "4" [] n = 5 -> "5" [] n = 6 -> "6" [] n = 7 -> "7"
    [] n = 8 -> "8" [] n = 9 -> "9"

RECURSIVE IntStr(_)
IntStr(n) == IF n < 10 THEN Digit(n) ELSE IntStr(n \div 10) \o Digit(n % 10)

(***************************************************************************)
(* PowerOceanEndPoint and the two lookups                                  *)
(***************************************************************************)
PowerOceanEndPoint(internal_unique_id, serial, name, friendly_name, value, unit, description, icon) ==
  [internal_unique_id |-> internal_unique_id, serial |-> serial,
   name |-> name, friendly_name |-> friendly_name, value |-> value,
   unit |-> unit, description |-> description, icon |-> icon]

get_unit_generation_first(key) ==
  IF Contains(key, "Generation")
    THEN JStr("kWh")
  ELSE IF EndsWith(key, "pwr") \/ EndsWith(key, "Pwr") \/ EndsWith(key, "Power")
    THEN JStr("W")
  ELSE IF EndsWith(key, "amp") \/ EndsWith(key, "Amp")
    THEN JStr("A")
  ELSE IF EndsWith(key, "soc") \/ EndsWith(key, "Soc")
          \/ EndsWith(key, "soh") \/ EndsWith(key, "Soh")
    THEN JStr("%")
  ELSE IF EndsWith(key, "vol") \/ EndsWith(key, "Vol")
    THEN JStr("V")
  ELSE IF EndsWith(key, "Watth") \/ EndsWith(key, "Energy")
    THEN JStr("Wh")
  ELSE IF StartsWith(key, "bpTemp")
    THEN JStr("°C")
  ELSE NoneV

get_unit(key) ==
  IF EndsWith(key, "pwr") \/ EndsWith(key, "Pwr") \/ EndsWith(key, "Power")
    THEN JStr("W")
  ELSE IF EndsWith(key, "amp") \/ EndsWith(key, "Amp")
    THEN JStr("A")
  ELSE IF EndsWith(key, "soc") \/ EndsWith(key, "Soc")
          \/ EndsWith(key, "soh") \/ EndsWith(key, "Soh")
    THEN JStr("%")
  ELSE IF EndsWith(key, "vol") \/ EndsWith(key, "Vol")
    THEN JStr("V")
  ELSE IF EndsWith(key, "Watth") \/ EndsWith(key, "Energy")
    THEN JStr("Wh")
  ELSE IF Contains(key, "Generation")
    THEN JStr("kWh")
  ELSE IF StartsWith(key, "bpTemp")
    THEN JStr("°C")
  ELSE NoneV

get_description_any_case(key) ==
  CASE key \in {"sysLoadPwr", "SysLoadPwr", "sysloadpwr"} -> "Hausnetz"
    [] key = "sysGridPwr" -> "Stromnetz"
    [] key = "mpptPwr" -> "Solarertrag"
    [] key = "bpPwr" -> "Batterieleistung"
    [] key = "bpSoc" -> "Ladezustand der Batterie"
    [] key = "online" -> "Online"
    [] key = "systemName" -> "System Name"
    [] key = "createTime" -> "Installations Datum"
    [] key = "bpVol" -> "Batteriespannung"
    [] key = "bpAmp" -> "Batteriestrom"
    [] key = "bpCycles" -> "Ladezyklen"
    [] key = "bpTemp" -> "Temperatur der Batteriezellen"
    [] OTHER -> key

get_description(key) ==
  CASE key = "sysLoadPwr" -> "Hausnetz"
    [] key = "sysGridPwr" -> "Stromnetz"
    [] key = "mpptPwr" -> "Solarertrag"
    [] key = "bpPwr" -> "Batterieleistung"
    [] key = "bpSoc" -> "Ladezustand der Batterie"
    [] key = "online" -> "Online"
    [] key = "systemName" -> "System Name"
    [] key = "createTime" -> "Installations Datum"
    [] key = "bpVol" -> "Batteriespannung"
    [] key = "bpAmp" -> "Batteriestrom"
    [] key = "bpCycles" -> "Ladezyklen"
    [] key = "bpTemp" -> "Temperatur der Batteriezellen"
    [] OTHER -> key

(***************************************************************************)
(* __get_sensors_data: the root extractor                                  *)
(***************************************************************************)
RootSensSelect ==
  {"sysLoadPwr", "sysGridPwr", "mpptPwr", "bpPwr", "online",
   "todayElectricityGeneration", "monthElectricityGeneration",
   "yearElectricityGeneration", "totalElectricityGeneration",
   "systemName", "createTime"}

\* the body of the loop over d.items()
RECURSIVE RootLoop(_, _, _)
RootLoop(sn, items, sensors) ==
  IF items = <<>> THEN sensors
  ELSE LET key == Head(items).k
           value == Head(items).v
           unique_id == sn \o "_" \o key
           special_icon == IF key = "mpptPwr" THEN JStr("mdi:solar-power") ELSE NoneV
       IN  IF key \in RootSensSelect /\ value.t # "dict"
           THEN RootLoop(sn, Tail(items),
                  SetItem(sensors, unique_id,
                    PowerOceanEndPoint(unique_id, sn, sn \o "_" \o key, key, value,
                                       get_unit(key), get_description(key),
                                       special_icon)))
           ELSE RootLoop(sn, Tail(items), sensors)

get_sensors_data(sn, response) ==
  Bind(GetItem(response, "data"), LAMBDA d :
    IF d.t # "dict" THEN Raise("AttributeError")
    ELSE Ok(RootLoop(sn, d.items, <<>>)))

(***************************************************************************)
(* __get_sensors_ems_change: the change-report extractor                   *)
(***************************************************************************)
ChangeSensSelect ==
  {"bpTotalChgEnergy", "bpTotalDsgEnergy", "bpSoc", "bpOnlineSum",
   "emsCtrlLedBright", "emsWordMode"}

RECURSIVE ChangeLoop(_, _, _, _)
ChangeLoop(inverter_sn, inverter_string, items, data) ==
  IF items = <<>> THEN data
  ELSE LET key == Head(items).k
           value == Head(items).v
           unique_id == inverter_sn \o "_JTS1_EMS_CHANGE_REPORT_" \o key
       IN  IF key \in ChangeSensSelect \/ MatchMpptCode(key)
           THEN ChangeLoop(inverter_sn, inverter_string, Tail(items),
                  SetItem(data, unique_id,
                    PowerOceanEndPoint(unique_id, inverter_sn,
                                       inverter_sn \o "_" \o key,
                                       key \o inverter_string, value,
                                       get_unit(key), get_description(key), NoneV)))
           ELSE ChangeLoop(inverter_sn, inverter_string, Tail(items), data)

get_sensors_ems_change(inverter_dataset, sensors, inverter_sn, inverter_string) ==
  Bind(GetItem(inverter_dataset, "JTS1_EMS_CHANGE_REPORT"), LAMBDA d :
    IF d.t # "dict" THEN Raise("AttributeError")
    ELSE Ok(Update(sensors, ChangeLoop(inverter_sn, inverter_string, d.items, <<>>))))

(***************************************************************************)
(* json_loads: the JSON grammar that orjson accepts.  Texts are over the   *)
(* characters a string of this module can hold: printable ASCII without    *)
(* the grave accent, the characters with the codes 192..255, and tab, line *)
(* feed, form feed and carriage return; an escape that names any other     *)
(* character has no value here.  Integers are                              *)
(* those of 32 bits.  Anything outside the grammar raises JSONDecodeError, *)
(* as does a non-str argument.                                             *)
(***************************************************************************)
Ch(s, i) == IF i >= 1 /\ i <= Len(s) THEN SubSeq(s, i, i) ELSE ""

\* the characters with the codes 32..95 and 97..126
Printable ==
  " !\"#$%&'()*+,-./0123456789:;<=>?@ABCDEFGHIJKLMNOPQRSTUVWXYZ[\\]^_"

PrintableLower == "abcdefghijklmnopqrstuvwxyz{|}~"

\* the characters with the codes 192..255
Latin1Letters ==
  "ÀÁÂÃÄÅÆÇÈÉÊËÌÍÎÏÐÑÒÓÔÕÖ×ØÙÚÛÜÝÞßàáâãäåæçèéêëìíîïðñòóôõö÷øùúûüýþÿ"

\* chr(n)
CodeChar(n) ==
  CASE n = 9 -> "\t"
    [] n = 10 -> "\n"
    [] n = 12 -> "\f"
    [] n = 13 -> "\r"
    [] n \in 32..95 -> Ch(Printable, n - 31)
    [] n \in 97..126 -> Ch(PrintableLower, n - 96)
    [] n \in 192..255 -> Ch(Latin1Letters, n - 191)

LitAt(s, i, lit) ==
  /\ i + Len(lit) - 1 <= Len(s)
  /\ SubSeq(s, i, i + Len(lit) - 1) = lit

\* the first position from i on that holds no white space
SkipWs(s, i) ==
  CHOOSE j \in i..(Len(s) + 1) :
    /\ Ch(s, j) \notin {" ", "\n", "\r", "\t"}
    /\ \A k \in i..(j - 1) : Ch(s, k) \in {" ", "\n", "\r", "\t"}

IsDigit(c) == c \in {"0", "1", "2", "3", "4", "5", "6", "7", "8", "9"}

DigitVal(c) == CHOOSE n \in 0..9 : Digit(n) = c

RECURSIVE ScanInt(_, _, _)
ScanInt(s, i, acc) ==
  IF IsDigit(Ch(s, i)) THEN ScanInt(s, i + 1, acc * 10 + DigitVal(Ch(s, i)))
  ELSE [val |-> acc, pos |-> i]

\* the first position from i on that holds no digit
EndDigits(s, i) ==
  CHOOSE j \in i..(Len(s) + 1) :
    ~IsDigit(Ch(s, j)) /\ \A k \in i..(j - 1) : IsDigit(Ch(s, k))

Times10(n) == NatAdd(Shl(n, 3), Shl(n, 1))

\* the natural number acc followed by the decimal digits lo to hi of digits
RECURSIVE DigitsNat(_, _, _, _)
DigitsNat(digits, lo, hi, acc) ==
  IF lo > hi THEN acc
  ELSE IF lo = hi THEN NatAdd(Times10(acc), BitsOf(DigitVal(Ch(digits, lo))))
  ELSE CHOOSE r \in {DigitsNat(digits, (lo + hi) \div 2 + 1, hi, first) :
                       first \in {DigitsNat(digits, lo, (lo + hi) \div 2, acc)}} : TRUE

\* n * 10^k
RECURSIVE MulPow10(_, _)
MulPow10(n, k) ==
  IF k = 0 THEN n
  ELSE IF k = 1 THEN Times10(n)
  ELSE CHOOSE r \in {MulPow10(half, k - k \div 2) : half \in {MulPow10(n, k \div 2)}} : TRUE

\* the double nearest to n * 10^exp10
DecimalFloat(neg, n, exp10) ==
  IF n = <<>> THEN Float(neg, <<>>, 0)
  ELSE IF exp10 >= 0 THEN Round(neg, MulPow10(n, exp10), 0, FALSE)
  ELSE QuotRound(neg, n, MulPow10(<<1>>, -exp10), 0)

Parsed(v, pos) == [ok |-> TRUE, val |-> v, pos |-> pos]

ParseFail == [ok |-> FALSE, val |-> NoneV, pos |-> 0]

\* a number that is too large for a double is an error
ParsedFloat(f, pos) == IF IsInf(f) THEN ParseFail ELSE Parsed(f, pos)

\* the number at position i, which holds a digit or a minus sign
ParseNumber(s, i) ==
  LET neg == Ch(s, i) = "-"
      a == IF neg THEN i + 1 ELSE i
      b == EndDigits(s, a)
      hasFrac == Ch(s, b) = "."
      c == IF hasFrac THEN EndDigits(s, b + 1) ELSE b
      hasExp == Ch(s, c) \in {"e", "E"}
      d == IF Ch(s, c + 1) \in {"+", "-"} THEN c + 2 ELSE c + 1
      z == IF hasExp THEN EndDigits(s, d) ELSE c
      exp == IF ~hasExp THEN 0
             ELSE IF Ch(s, c + 1) = "-" THEN 0 - ScanInt(s, d, 0).val
             ELSE ScanInt(s, d, 0).val
  IN  IF b = a THEN ParseFail
      ELSE IF Ch(s, a) = "0" /\ b > a + 1 THEN ParseFail
      ELSE IF hasFrac /\ c = b + 1 THEN ParseFail
      ELSE IF hasExp /\ z = d THEN ParseFail
      ELSE IF ~hasFrac /\ ~hasExp
        THEN Parsed(JInt(IF neg THEN 0 - ScanInt(s, a, 0).val ELSE ScanInt(s, a, 0).val), b)
      ELSE ParsedFloat(DecimalFloat(neg,
                                    DigitsNat(SubSeq(s, a, b - 1) \o SubSeq(s, b + 1, c - 1),
                                              1, c - a - (IF hasFrac THEN 1 ELSE 0), <<>>),
                                    exp - (IF hasFrac THEN c - b - 1 ELSE 0)),
                       z)

IsHex(c) == Len(c) = 1 /\ \E n \in 1..22 : Ch("0123456789abcdefABCDEF", n) = c

HexVal(c) ==
  IF IsDigit(c) THEN DigitVal(c)
  ELSE 10 + ((CHOOSE n \in 0..11 : Ch("abcdefABCDEF", n + 1) = c) % 6)

\* the code that the four hex digits from position i on name
HexCode(s, i) ==
  ((HexVal(Ch(s, i)) * 16 + HexVal(Ch(s, i + 1))) * 16 + HexVal(Ch(s, i + 2))) * 16
    + HexVal(Ch(s, i + 3))

\* the character that the escape \c names
Unescaped(c) ==
  CASE c = "\"" -> "\""
    [] c = "\\" -> "\\"
    [] c = "/" -> "/"
    [] c = "f" -> "\f"
    [] c = "n" -> "\n"
    [] c = "r" -> "\r"
    [] c = "t" -> "\t"

\* the first position from i on that holds a quote, a backslash or a control
\* character, or the end of the text
NextSpecial(s, i) ==
  CHOOSE j \in i..(Len(s) + 1) :
    /\ j = Len(s) + 1 \/ Ch(s, j) \in {"\"", "\\", "\t", "\n", "\f", "\r"}
    /\ \A k \in i..(j - 1) : Ch(s, k) \notin {"\"", "\\", "\t", "\n", "\f", "\r"}

\* the string whose opening quote is before position i, after the characters
\* acc; j is the next special position and acc holds the characters before it
RECURSIVE ScanString(_, _, _)
RECURSIVE AtSpecial(_, _, _)
ScanString(s, i, acc) ==
  AtSpecial(s, NextSpecial(s, i), acc \o SubSeq(s, i, NextSpecial(s, i) - 1))

AtSpecial(s, j, acc) ==
  IF Ch(s, j) = "\"" THEN Parsed(JStr(acc), j + 1)
  ELSE IF Ch(s, j) # "\\" THEN ParseFail
  ELSE IF Ch(s, j + 1) = "u"
    THEN IF \A n \in 2..5 : IsHex(Ch(s, j + n))
         THEN ScanString(s, j + 6, acc \o CodeChar(HexCode(s, j + 2)))
         ELSE ParseFail
  ELSE IF Ch(s, j + 1) \in {"\"", "\\", "/", "b", "f", "n", "r", "t"}
    THEN ScanString(s, j + 2, acc \o Unescaped(Ch(s, j + 1)))
  ELSE ParseFail

RECURSIVE ParseValue(_, _)
RECURSIVE ParseMembers(_, _, _)
RECURSIVE AfterKey(_, _, _)
RECURSIVE AfterMember(_, _, _, _)
RECURSIVE ParseElements(_, _, _)
RECURSIVE AfterElement(_, _, _)
ParseValue(s, i0) ==
  LET i == SkipWs(s, i0)
      c == Ch(s, i)
  IN  IF c = "{"
        THEN IF Ch(s, SkipWs(s, i + 1)) = "}"
             THEN Parsed(JDict(<<>>), SkipWs(s, i + 1) + 1)
             ELSE ParseMembers(s, i + 1, <<>>)
      ELSE IF c = "["
        THEN IF Ch(s, SkipWs(s, i + 1)) = "]"
             THEN Parsed(JList(<<>>), SkipWs(s, i + 1) + 1)
             ELSE ParseElements(s, i + 1, <<>>)
      ELSE IF c = "\"" THEN ScanString(s, i + 1, "")
      ELSE IF IsDigit(c) \/ c = "-" THEN ParseNumber(s, i)
      ELSE IF LitAt(s, i, "true") THEN Parsed(JBool(TRUE), i + 4)
      ELSE IF LitAt(s, i, "false") THEN Parsed(JBool(FALSE), i + 5)
      ELSE IF LitAt(s, i, "null") THEN Parsed(NoneV, i + 4)
      ELSE ParseFail

\* the members of an object from position i0 on
ParseMembers(s, i0, acc) ==
  IF Ch(s, SkipWs(s, i0)) # "\"" THEN ParseFail
  ELSE AfterKey(s, acc, ScanString(s, SkipWs(s, i0) + 1, ""))

\* key is the parsed key of a member
AfterKey(s, acc, key) ==
  IF ~key.ok \/ Ch(s, SkipWs(s, key.pos)) # ":" THEN ParseFail
  ELSE AfterMember(s, acc, key.val.s, ParseValue(s, SkipWs(s, key.pos) + 1))

\* v is the parsed value of the member key; a repeated key keeps the last value
AfterMember(s, acc, key, v) ==
  IF ~v.ok THEN ParseFail
  ELSE IF Ch(s, SkipWs(s, v.pos)) = ","
    THEN ParseMembers(s, SkipWs(s, v.pos) + 1, SetItem(acc, key, v.val))
  ELSE IF Ch(s, SkipWs(s, v.pos)) = "}"
    THEN Parsed(JDict(SetItem(acc, key, v.val)), SkipWs(s, v.pos) + 1)
  ELSE ParseFail

ParseElements(s, i0, acc) == AfterElement(s, acc, ParseValue(s, i0))

AfterElement(s, acc, v) ==
  IF ~v.ok THEN ParseFail
  ELSE IF Ch(s, SkipWs(s, v.pos)) = ","
    THEN ParseElements(s, SkipWs(s, v.pos) + 1, Append(acc, v.val))
  ELSE IF Ch(s, SkipWs(s, v.pos)) = "]"
    THEN Parsed(JList(Append(acc, v.val)), SkipWs(s, v.pos) + 1)
  ELSE ParseFail

\* the whole text must be one value
Decoded(s, r) ==
  IF r.ok /\ SkipWs(s, r.pos) = Len(s) + 1 THEN Ok(r.val)
  ELSE Raise("JSONDecodeError")

json_loads(v) ==
  IF v.t # "str" THEN Raise("JSONDecodeError") ELSE Decoded(v.s, ParseValue(v.s, 1))

(***************************************************************************)
(* __get_sensors_battery: the battery-pack extractor                       *)
(***************************************************************************)
BatSensSelect ==
  {"bpPwr", "bpSoc", "bpSoh", "bpVol", "bpAmp", "bpCycles", "bpSysState",
   "bpRemainWatth"}

\* batts = [s for s in keys if len(s) > 12]
BattsFromTwelve(items) == SelectSeq(DictKeys(items), LAMBDA s : Len(s) >= 12)

Batts(items) == SelectSeq(DictKeys(items), LAMBDA s : Len(s) > 12)

IsNumber(v) == v.t \in {"int", "bool", "float"}

\* the int of an int or a bool
IntOf(v) == IF v.t = "bool" THEN IF v.b THEN 1 ELSE 0 ELSE v.i

\* float(v) of a number
AsFloat(v) == IF v.t = "float" THEN v ELSE FromInt(IntOf(v))

PlusKeepingLast(a, b) == b

\* a + b of two numbers
Plus(a, b) ==
  IF a.t # "float" /\ b.t # "float" THEN JInt(IntOf(a) + IntOf(b))
  ELSE FAdd(AsFloat(a), AsFloat(b))

\* |x| < |y|; no comparison with not-a-number holds
FAbsLess(x, y) ==
  ~IsNaN(x) /\ ~IsNaN(y) /\
  NatLess(Shl(x.m, x.e - Min(x.e, y.e)), Shl(y.m, y.e - Min(x.e, y.e)))

\* x - y
FSub(x, y) == FAdd(x, Float(~y.neg, y.m, y.e))

\* what the step f + x = t of a sum of floats lost (Neumaier's correction)
Compensation(f, x, t) ==
  IF FAbsLess(f, x) THEN FAdd(FSub(x, t), f) ELSE FAdd(FSub(f, t), x)

\* sum() keeps an int total i while the items are ints, and from the first
\* float on a float total f with the correction c of the steps between floats
SumFloat(st, x, t) ==
  [t |-> "float", f |-> t, c |-> FAdd(st.c, Compensation(st.f, x, t))]

\* the total after the item x
SumStep(st, x) ==
  IF st.t = "int"
  THEN IF x.t = "float" THEN [t |-> "float", f |-> FAdd(FromInt(st.i), x), c |-> FZero]
       ELSE [t |-> "int", i |-> st.i + IntOf(x)]
  ELSE IF x.t = "float" THEN SumFloat(st, x, FAdd(st.f, x))
  ELSE [t |-> "float", f |-> FAdd(st.f, AsFloat(x)), c |-> st.c]

\* the total after the items lo to hi, the first half of them first
RECURSIVE SumRange(_, _, _, _)
SumRange(elems, lo, hi, st) ==
  IF lo > hi THEN st
  ELSE IF lo = hi THEN SumStep(st, elems[lo])
  ELSE CHOOSE r \in {SumRange(elems, (lo + hi) \div 2 + 1, hi, first) :
                       first \in {SumRange(elems, lo, (lo + hi) \div 2, st)}} : TRUE

\* the sum that a total stands for
SumEnd(st) ==
  IF st.t = "int" THEN JInt(st.i)
  ELSE IF st.c.m # <<>> /\ ~IsInf(st.c) /\ ~IsNaN(st.c) THEN FAdd(st.f, st.c)
  ELSE st.f

\* sum(elems) of numbers
SumOf(elems) == SumEnd(SumRange(elems, 1, Len(elems), [t |-> "int", i |-> 0]))

\* total // n as a float, for an int total
FloorDiv(total, n) ==
  IF total.t = "float" THEN FDiv(total, FromInt(n)) ELSE JFloat(total.i \div n, 1)

\* total / n
TrueDiv(total, n) ==
  IF total.t = "float" THEN FDiv(total, FromInt(n)) ELSE JFloat(total.i, n)

\* sum(temp) / len(temp)
MeanFloored(temp) ==
  IF temp.t = "list"
  THEN IF \E n \in 1..Len(temp.elems) : ~IsNumber(temp.elems[n]) THEN Raise("TypeError")
       ELSE IF Len(temp.elems) = 0 THEN Raise("ZeroDivisionError")
       ELSE Ok(FloorDiv(SumOf(temp.elems), Len(temp.elems)))
  ELSE IF temp.t = "dict" /\ temp.items = <<>> THEN Raise("ZeroDivisionError")
  ELSE IF temp.t = "str" /\ temp.s = "" THEN Raise("ZeroDivisionError")
  ELSE Raise("TypeError")

Mean(temp) ==
  IF temp.t = "list"
  THEN IF \E n \in 1..Len(temp.elems) : ~IsNumber(temp.elems[n]) THEN Raise("TypeError")
       ELSE IF Len(temp.elems) = 0 THEN Raise("ZeroDivisionError")
       ELSE Ok(TrueDiv(SumOf(temp.elems), Len(temp.elems)))
  ELSE IF temp.t = "dict" /\ temp.items = <<>> THEN Raise("ZeroDivisionError")
  ELSE IF temp.t = "str" /\ temp.s = "" THEN Raise("ZeroDivisionError")
  ELSE Raise("TypeError")

\* the loop over d_bat.items() of one pack
RECURSIVE PackLoop(_, _, _, _, _, _)
PackLoop(inverter_sn, inverter_string, bat, name, items, data) ==
  IF items = <<>> THEN data
  ELSE LET key == Head(items).k
           value == Head(items).v
           unique_id == inverter_sn \o "_JTS1_BP_STA_REPORT_" \o bat \o "_" \o key
           special_icon == IF key = "bpAmp" THEN JStr("mdi:current-dc") ELSE NoneV
       IN  IF key \in BatSensSelect
           THEN PackLoop(inverter_sn, inverter_string, bat, name, Tail(items),
                  SetItem(data, unique_id,
                    PowerOceanEndPoint(unique_id, inverter_sn,
                                       inverter_sn \o "_" \o name \o key,
                                       name \o key \o inverter_string, value,
                                       get_unit(key),
                                       name \o get_description(key),
                                       special_icon)))
           ELSE PackLoop(inverter_sn, inverter_string, bat, name, Tail(items), data)

\* the record of the mean temperature of the cells of one pack
MeanTemperatureSharedId(inverter_sn, inverter_string, bat, name, value) ==
  PowerOceanEndPoint(inverter_sn \o "_JTS1_BP_STA_REPORT_bpTemp",
                     inverter_sn, inverter_sn \o "_" \o name \o "bpTemp",
                     name \o "bpTemp" \o inverter_string, value,
                     get_unit("bpTemp"), name \o get_description("bpTemp"), NoneV)

MeanTemperature(inverter_sn, inverter_string, bat, name, value) ==
  PowerOceanEndPoint(inverter_sn \o "_JTS1_BP_STA_REPORT_" \o bat \o "_bpTemp",
                     inverter_sn, inverter_sn \o "_" \o name \o "bpTemp",
                     name \o "bpTemp" \o inverter_string, value,
                     get_unit("bpTemp"), name \o get_description("bpTemp"), NoneV)

\* one pass of the loop over enumerate(batts); d_bat is json_loads(d[bat])
Pack(inverter_sn, inverter_string, bat, name, d_bat, data) ==
  IF d_bat.t # "dict" THEN Raise("AttributeError")
  ELSE Bind(GetItem(d_bat, "bpTemp"), LAMBDA temp :
         Bind(Mean(temp), LAMBDA value :
           Ok(SetItem(PackLoop(inverter_sn, inverter_string, bat, name,
                               d_bat.items, data),
                      inverter_sn \o "_JTS1_BP_STA_REPORT_" \o bat \o "_bpTemp",
                      MeanTemperature(inverter_sn, inverter_string, bat, name,
                                      value)))))

\* the local data when a pass stops: the inner loop has run once d_bat is there
PackWritten(inverter_sn, inverter_string, bat, name, d_bat, data) ==
  IF d_bat.exc # "" \/ d_bat.val.t # "dict" THEN data
  ELSE PackLoop(inverter_sn, inverter_string, bat, name, d_bat.val.items, data)

\* the loop over enumerate(batts), from pack number ibat + 1 on
RECURSIVE BatteryLoop(_, _, _, _, _, _)
BatteryLoop(inverter_sn, inverter_string, d, batts, ibat, data) ==
  IF ibat >= Len(batts) THEN Ok(data)
  ELSE Bind(json_loads(Lookup(d, batts[ibat + 1])), LAMBDA d_bat :
         Bind(Pack(inverter_sn, inverter_string, batts[ibat + 1],
                   "bpack" \o IntStr(ibat + 1) \o "_", d_bat, data),
              LAMBDA added :
                BatteryLoop(inverter_sn, inverter_string, d, batts, ibat + 1, added)))

get_sensors_battery(inverter_data, sensors, inverter_sn, inverter_string) ==
  Bind(GetItem(inverter_data, "JTS1_BP_STA_REPORT"), LAMBDA d :
    IF d.t # "dict" THEN Raise("AttributeError")
    ELSE Bind(BatteryLoop(inverter_sn, inverter_string, d.items, Batts(d.items),
                          0, <<>>),
              LAMBDA data : Ok(Update(sensors, data))))

(***************************************************************************)
(* __get_sensors_ems_heartbeat: the heartbeat extractor.  The loops share  *)
(* the local variable key, which the last record reads after them.         *)
(***************************************************************************)
HeartbeatSensSelectShort ==
  {"bpRemainWatth", "emsBpAliveNum", "emsBpPower", "pcsActPwr"}

HeartbeatSensSelect ==
  {"bpRemainWatth", "emsBpAliveNum", "emsBpPower", "pcsActPwr", "pcsMeterPower"}

Phases == <<"pcsAPhase", "pcsBPhase", "pcsCPhase">>

\* the loop over d.items()
RECURSIVE HeartbeatLoop(_, _, _, _)
HeartbeatLoop(inverter_sn, inverter_string, items, data) ==
  IF items = <<>> THEN data
  ELSE LET key == Head(items).k
           value == Head(items).v
           unique_id == inverter_sn \o "_JTS1_EMS_HEARTBEAT_" \o key
       IN  IF key \in HeartbeatSensSelect
           THEN HeartbeatLoop(inverter_sn, inverter_string, Tail(items),
                  SetItem(data, unique_id,
                    PowerOceanEndPoint(unique_id, inverter_sn,
                                       inverter_sn \o "_" \o key,
                                       key \o inverter_string, value,
                                       get_unit(key), get_description(key), NoneV)))
           ELSE HeartbeatLoop(inverter_sn, inverter_string, Tail(items), data)

\* the loop over d[phase].items() of one phase
RECURSIVE PhaseLoop(_, _, _, _, _)
PhaseLoop(inverter_sn, inverter_string, phase, items, data) ==
  IF items = <<>> THEN data
  ELSE LET key == Head(items).k
           value == Head(items).v
           name == phase \o "_" \o key
           unique_id == inverter_sn \o "_JTS1_EMS_HEARTBEAT_" \o name
       IN  PhaseLoop(inverter_sn, inverter_string, phase, Tail(items),
             SetItem(data, unique_id,
               PowerOceanEndPoint(unique_id, inverter_sn,
                                  inverter_sn \o "_" \o name,
                                  name \o inverter_string, value,
                                  get_unit(key), get_description(key), NoneV)))

\* what a loop leaves behind: the records, the variable key and the power sum
LoopState(data, key, sum) == [exc |-> "", data |-> data, key |-> key, sum |-> sum]

\* what a loop leaves behind when a statement of it raises
LoopRaise(e, data, key) == [exc |-> e, data |-> data, key |-> key, sum |-> FZero]

\* the loop over enumerate(phases), from phase number n on
RECURSIVE PhasesLoop(_, _, _, _, _, _)
PhasesLoop(inverter_sn, inverter_string, d, n, data, key) ==
  IF n > Len(Phases) THEN LoopState(data, key, FZero)
  ELSE LET p == GetItem(d, Phases[n])
       IN  IF p.exc # "" THEN LoopRaise(p.exc, data, key)
           ELSE IF p.val.t # "dict" THEN LoopRaise("AttributeError", data, key)
           ELSE PhasesLoop(inverter_sn, inverter_string, d, n + 1,
                  PhaseLoop(inverter_sn, inverter_string, Phases[n],
                            p.val.items, data),
                  IF p.val.items = <<>> THEN key
                  ELSE p.val.items[Len(p.val.items)].k)

\* the loop over the items of one PV string; self_sn is self.sn
RECURSIVE StringLoop(_, _, _, _, _, _, _)
StringLoop(self_sn, inverter_sn, inverter_string, mpptpv, items, data, sum) ==
  IF items = <<>> THEN LoopState(data, "", sum)
  ELSE LET key == Head(items).k
           value == Head(items).v
           unique_id == inverter_sn \o "_JTS1_EMS_HEARTBEAT_mpptHeartBeat_"
                          \o mpptpv \o "_" \o key
           special_icon == IF EndsWith(key, "pwr") THEN JStr("mdi:solar-power")
                           ELSE IF EndsWith(key, "amp") THEN JStr("mdi:current-dc")
                           ELSE NoneV
           added == SetItem(data, unique_id,
                      PowerOceanEndPoint(unique_id, self_sn,
                                         inverter_sn \o "_" \o mpptpv \o "_" \o key,
                                         mpptpv \o "_" \o key \o inverter_string,
                                         value, get_unit(key), get_description(key),
                                         special_icon))
       IN  IF key = "pwr" /\ ~IsNumber(value) THEN LoopRaise("TypeError", added, key)
           ELSE StringLoop(self_sn, inverter_sn, inverter_string, mpptpv, Tail(items),
                           added,
                           IF key = "pwr" THEN Plus(sum, value) ELSE sum)

\* the loop over enumerate(mpptpvs), from string number i on
RECURSIVE StringsLoop(_, _, _, _, _, _, _, _, _)
RECURSIVE AfterString(_, _, _, _, _, _, _, _)
StringsLoop(self_sn, inverter_sn, inverter_string, mpptPv, n_strings, i, data, key, sum) ==
  IF i > n_strings THEN LoopState(data, key, sum)
  ELSE IF mpptPv.t = "dict" THEN LoopRaise("KeyError", data, key)
  ELSE IF mpptPv.t # "list" \/ mpptPv.elems[i].t # "dict"
    THEN LoopRaise("AttributeError", data, key)
  ELSE AfterString(self_sn, inverter_sn, inverter_string, mpptPv, n_strings, i, key,
                   StringLoop(self_sn, inverter_sn, inverter_string,
                              "mpptPv" \o IntStr(i), mpptPv.elems[i].items, data, sum))

\* r is what the inner loop over string number i left behind
AfterString(self_sn, inverter_sn, inverter_string, mpptPv, n_strings, i, key, r) ==
  IF r.exc # "" THEN r
  ELSE StringsLoop(self_sn, inverter_sn, inverter_string, mpptPv, n_strings,
                   i + 1, r.data,
                   IF mpptPv.elems[i].items = <<>> THEN key
                   ELSE mpptPv.elems[i].items[Len(mpptPv.elems[i].items)].k,
                   r.sum)

\* v[0]
GetFirst(v) ==
  IF v.t = "list" THEN IF v.elems = <<>> THEN Raise("IndexError") ELSE Ok(v.elems[1])
  ELSE IF v.t = "dict" THEN Raise("KeyError")
  ELSE IF v.t = "str" THEN IF v.s = "" THEN Raise("IndexError") ELSE Ok(JStr(SubSeq(v.s, 1, 1)))
  ELSE Raise("TypeError")

\* len(v)
LenOf(v) ==
  IF v.t = "list" THEN Ok(Len(v.elems))
  ELSE IF v.t = "dict" THEN Ok(Len(v.items))
  ELSE IF v.t = "str" THEN Ok(Len(v.s))
  ELSE Raise("TypeError")

\* the record of the summed power, after the loops; strings is what they left
Total(sensors, inverter_sn, inverter_string, strings) ==
  IF strings.exc # "" THEN Raise(strings.exc)
  ELSE Ok(Update(sensors,
            SetItem(strings.data,
                    inverter_sn \o "_JTS1_EMS_HEARTBEAT_mpptHeartBeat_mpptPv_pwrTotal",
                    PowerOceanEndPoint(
                      inverter_sn \o "_JTS1_EMS_HEARTBEAT_mpptHeartBeat_mpptPv_pwrTotal",
                      inverter_sn, inverter_sn \o "_mpptPv_pwrTotal",
                      "mpptPv_pwrTotal" \o inverter_string,
                      strings.sum,
                      get_unit(strings.key), "Solarertrag aller Strings",
                      JStr("mdi:solar-power")))))

\* n_strings = len(d["mpptHeartBeat"][0]["mpptPv"]) and the loops over the
\* strings; phases is what the loops before them left
StringsRun(self_sn, d, inverter_sn, inverter_string, phases) ==
  LET mpptPv == Bind(GetItem(d, "mpptHeartBeat"), LAMBDA hb :
                  Bind(GetFirst(hb), LAMBDA hb0 : GetItem(hb0, "mpptPv")))
      n_strings == Bind(mpptPv, LAMBDA v : LenOf(v))
  IN  IF phases.exc # "" THEN phases
      ELSE IF n_strings.exc # "" THEN LoopRaise(n_strings.exc, phases.data, phases.key)
      ELSE StringsLoop(self_sn, inverter_sn, inverter_string, mpptPv.val,
                       n_strings.val, 1, phases.data, phases.key, FZero)

\* the special for mpptPv and the total
Strings(self_sn, d, sensors, inverter_sn, inverter_string, phases) ==
  Total(sensors, inverter_sn, inverter_string,
        StringsRun(self_sn, d, inverter_sn, inverter_string, phases))

get_sensors_ems_heartbeat(self_sn, inverter_data, sensors, inverter_sn, inverter_string) ==
  Bind(GetItem(inverter_data, "JTS1_EMS_HEARTBEAT"), LAMBDA d :
    IF d.t # "dict" THEN Raise("AttributeError")
    ELSE Strings(self_sn, d, sensors, inverter_sn, inverter_string,
                 PhasesLoop(inverter_sn, inverter_string, d, 1,
                            HeartbeatLoop(inverter_sn, inverter_string, d.items, <<>>),
                            IF d.items = <<>> THEN "" ELSE d.items[Len(d.items)].k)))

(***************************************************************************)
(* The instance: self.sn from the constructor, and the attributes that     *)
(* _get_serial_numbers creates on it                                       *)
(***************************************************************************)
Ecoflow(serialnumber) ==
  [sn |-> serialnumber,
   first_sn |-> Unset, second_sn |-> Unset,
   master_sn |-> Unset, slave_sn |-> Unset,
   master_data |-> Unset, slave_data |-> Unset]

\* the two serials the resolver looks up by name before it decides
ProbedMaster == "J32EZEH4ZG3S0104"

ProbedSlave == "J32EZEH4ZG3S0042"

\* v[k].keys() as the resolver's logging statements evaluate it
ProbeKeys(v, k) ==
  LET x == GetItem(v, k)
  IN  IF x.exc # "" THEN x ELSE KeysOf(x.val)

\* the lookups the resolver makes for its log lines before the topology test:
\* response.keys() and response.items() first, whose loop swallows every
\* exception of its body, then the named lookups under response["data"]
ProbeSegmentsSkipped(response) == ""

ProbeSegments(response) ==
  LET p_data == ProbeKeys(response, "data")
      p_data_quota == ProbeKeys(p_data.val, "quota")
      p_data_parallel == ProbeKeys(p_data.val, "parallel")
      p_data_parallel_master == ProbeKeys(p_data_parallel.val, ProbedMaster)
      p_data_parallel_slave == ProbeKeys(p_data_parallel.val, ProbedSlave)
  IN  IF response.t # "dict" THEN "AttributeError"
      ELSE IF p_data.exc # "" THEN p_data.exc
      ELSE IF p_data_quota.exc # "" THEN p_data_quota.exc
      ELSE IF p_data_parallel.exc # "" THEN p_data_parallel.exc
      ELSE IF p_data_parallel_master.exc # "" THEN p_data_parallel_master.exc
      ELSE p_data_parallel_slave.exc

\* the locals of one invocation of the resolver and the statement it stands at
IdleResolver == [pc |-> "probe", branch |-> "", n |-> 0, exc |-> "", ret |-> 0]

ResolverRaised(rs, e) == [rs EXCEPT !.pc = "raised", !.exc = e]

ResolverReturned(rs, ret) == [rs EXCEPT !.pc = "returned", !.ret = ret]

\* p = response["data"]["parallel"], once the logging statements have passed
SegmentsOf(response) == Lookup(Lookup(response.items, "data").items, "parallel").items

\* the logging statements, the topology test and, for a single inverter,
\* self.master_data = response["data"]["quota"]; return 0; otherwise
\* self.first_sn = next(iter(keys_2))
ProbeStep(self, response, rs, probe) ==
  LET p_data == ProbeKeys(response, "data")
      quota == GetItem(p_data.val, "quota")
      p == ProbeKeys(p_data.val, "parallel")
  IN  IF probe # "" THEN [self |-> self, rs |-> ResolverRaised(rs, probe)]
      ELSE IF p_data.exc # "" THEN [self |-> self, rs |-> ResolverRaised(rs, p_data.exc)]
      ELSE IF ~HasKey(p_data.val.items, "parallel")
        THEN IF quota.exc # "" THEN [self |-> self, rs |-> ResolverRaised(rs, quota.exc)]
             ELSE [self |-> [self EXCEPT !.master_data = quota.val],
                   rs |-> ResolverReturned(rs, 0)]
      ELSE IF p.exc # "" THEN [self |-> self, rs |-> ResolverRaised(rs, p.exc)]
      ELSE IF p.val.items = <<>>
        THEN [self |-> self, rs |-> ResolverRaised(rs, "StopIteration")]
      ELSE [self |-> [self EXCEPT !.first_sn = JStr(p.val.items[1].k)],
            rs |-> [rs EXCEPT !.pc = "second_sn"]]

\* self.second_sn = next(reversed(keys_2))
SecondStep(self, response, rs) ==
  [self |-> [self EXCEPT !.second_sn =
                           JStr(SegmentsOf(response)[Len(SegmentsOf(response))].k)],
   rs |-> [rs EXCEPT !.pc = "test"]]

\* if self.first_sn == self.sn
FirstIsMasterOrPreviousSlave(self) ==
  self.first_sn = JStr(self.sn) \/ self.first_sn = self.slave_sn

FirstIsMaster(self) == self.first_sn = JStr(self.sn)

TestStep(self, rs) ==
  [self |-> self,
   rs |-> [rs EXCEPT !.pc = "assign", !.n = 1,
                     !.branch = IF FirstIsMaster(self) THEN "first" ELSE "second"]]

\* the assignments of the two branches, in the order of the statements: the
\* attribute written, the attribute read, and whether the value read is a
\* key of response["data"]["parallel"]
Assign(target, from, lookup) == [target |-> target, from |-> from, lookup |-> lookup]

Assignments(branch) ==
  IF branch = "first"
  THEN <<Assign("master_sn", "first_sn", FALSE), Assign("slave_sn", "second_sn", FALSE),
         Assign("master_data", "first_sn", TRUE), Assign("master_data", "first_sn", TRUE),
         Assign("slave_data", "second_sn", TRUE)>>
  ELSE <<Assign("master_sn", "second_sn", FALSE), Assign("slave_sn", "first_sn", FALSE),
         Assign("master_data", "second_sn", TRUE), Assign("slave_data", "first_sn", TRUE)>>

\* one assignment: the attribute on the right is read, the segment of that
\* name is looked up where the statement does so, and the attribute on the
\* left is written; after the last assignment, return len(p)
AssignStep(self, response, rs) ==
  LET a == Assignments(rs.branch)[rs.n]
      v == IF a.lookup THEN GetItem(JDict(SegmentsOf(response)), self[a.from].s)
           ELSE Ok(self[a.from])
  IN  IF v.exc # "" THEN [self |-> self, rs |-> ResolverRaised(rs, v.exc)]
      ELSE [self |-> [self EXCEPT ![a.target] = v.val],
            rs |-> IF rs.n = Len(Assignments(rs.branch))
                   THEN ResolverReturned(rs, Len(SegmentsOf(response)))
                   ELSE [rs EXCEPT !.n = rs.n + 1]]

\* the lookups for the log lines read the response only
ResolverStep(self, response, rs) ==
  CASE rs.pc = "probe" -> ProbeStep(self, response, rs, ProbeSegments(response))
    [] rs.pc = "second_sn" -> SecondStep(self, response, rs)
    [] rs.pc = "test" -> TestStep(self, rs)
    [] rs.pc = "assign" -> AssignStep(self, response, rs)

ResolverDone(rs) == rs.pc \in {"returned", "raised"}

\* the resolver run from a statement to its end without interruption
RECURSIVE RunResolver(_, _)
RunResolver(response, r) ==
  IF ResolverDone(r.rs) THEN r
  ELSE RunResolver(response, ResolverStep(r.self, response, r.rs))

Resolved(r) == [self |-> r.self, exc |-> r.rs.exc, ret |-> r.rs.ret]

get_serial_numbers(self, response) ==
  Resolved(RunResolver(response, [self |-> self, rs |-> IdleResolver]))

(***************************************************************************)
(* _get_sensors: the assembler.  A frame holds the local variables of one  *)
(* invocation and the statement it stands at; every statement reads the    *)
(* instance attributes at the moment it runs.                              *)
(***************************************************************************)
IdleFrame ==
  [pc |-> "idle", response |-> NoneV, serials |-> -1, master_string |-> "",
   slave_string |-> "", sensors |-> <<>>, status |-> "idle", exc |-> "",
   resolver |-> IdleResolver]

NewFrame(response) ==
  [IdleFrame EXCEPT !.pc = "resolve", !.response = response, !.status = "running"]

\* the frame after `return sensors`, after the bare `return`, after a raise
FrameReturned(fr, sensors) ==
  [fr EXCEPT !.pc = "done", !.status = "returned", !.sensors = sensors]

FrameAborted(fr) == [fr EXCEPT !.pc = "done", !.status = "none", !.sensors = <<>>]

FrameRaised(fr, e) ==
  [fr EXCEPT !.pc = "done", !.status = "raised", !.exc = e, !.sensors = <<>>]

MasterSteps == {"master_change", "master_battery", "master_heartbeat"}

SlaveSteps == {"slave_change", "slave_battery", "slave_heartbeat"}

NextStep(pc) ==
  CASE pc = "data" -> "master_change"
    [] pc = "master_change" -> "master_battery"
    [] pc = "master_battery" -> "master_heartbeat"
    [] pc = "master_heartbeat" -> "slave_change"
    [] pc = "slave_change" -> "slave_battery"
    [] pc = "slave_battery" -> "slave_heartbeat"
    [] pc = "slave_heartbeat" -> "done"

\* serials = self._get_serial_numbers(response) and the test of serials
AfterResolveOneSuffix(fr, r) ==
  IF r.exc # "" THEN [self |-> r.self, fr |-> FrameRaised(fr, r.exc)]
  ELSE IF r.ret = 2
    THEN [self |-> r.self,
          fr |-> [fr EXCEPT !.pc = "data", !.serials = 2,
                            !.master_string = "_master", !.slave_string = "_master"]]
  ELSE IF r.ret = 0
    THEN [self |-> r.self,
          fr |-> [fr EXCEPT !.pc = "data", !.serials = 0, !.master_string = ""]]
  ELSE [self |-> r.self, fr |-> FrameAborted([fr EXCEPT !.serials = r.ret])]

AfterResolve(fr, r) ==
  IF r.exc # "" THEN [self |-> r.self, fr |-> FrameRaised(fr, r.exc)]
  ELSE IF r.ret = 2
    THEN [self |-> r.self,
          fr |-> [fr EXCEPT !.pc = "data", !.serials = 2,
                            !.master_string = "_master", !.slave_string = "_slave"]]
  ELSE IF r.ret = 0
    THEN [self |-> r.self,
          fr |-> [fr EXCEPT !.pc = "data", !.serials = 0, !.master_string = ""]]
  ELSE [self |-> r.self, fr |-> FrameAborted([fr EXCEPT !.serials = r.ret])]

\* one statement of the resolver, and the statements after its return
Resolving(fr, r) ==
  IF ResolverDone(r.rs) THEN AfterResolve([fr EXCEPT !.resolver = IdleResolver], Resolved(r))
  ELSE [self |-> r.self, fr |-> [fr EXCEPT !.resolver = r.rs]]

ResolveStep(self, fr) == Resolving(fr, ResolverStep(self, fr.response, fr.resolver))

\* one `sensors = self.__get_sensors_...(...)` statement
ExtractCall(self, fr) ==
  LET inverter_data == IF fr.pc \in MasterSteps THEN self.master_data ELSE self.slave_data
      inverter_sn == IF fr.pc \in MasterSteps THEN self.master_sn ELSE self.slave_sn
      inverter_string == IF fr.pc \in MasterSteps THEN fr.master_string
                         ELSE fr.slave_string
  IN  IF fr.pc = "data" THEN get_sensors_data(self.sn, fr.response)
      ELSE IF inverter_data = Unset \/ inverter_sn = Unset THEN Raise("AttributeError")
      ELSE IF fr.pc \in {"master_change", "slave_change"}
        THEN get_sensors_ems_change(inverter_data, fr.sensors, inverter_sn.s,
                                    inverter_string)
      ELSE IF fr.pc \in {"master_battery", "slave_battery"}
        THEN get_sensors_battery(inverter_data, fr.sensors, inverter_sn.s,
                                 inverter_string)
      ELSE get_sensors_ems_heartbeat(self.sn, inverter_data, fr.sensors,
                                     inverter_sn.s, inverter_string)

\* the statement after an extractor call: the next call, or `return sensors`
AfterExtract(self, fr, r) ==
  IF r.exc # "" THEN [self |-> self, fr |-> FrameRaised(fr, r.exc)]
  ELSE IF fr.pc = "slave_heartbeat" \/ (fr.pc = "master_heartbeat" /\ fr.serials # 2)
    THEN [self |-> self, fr |-> FrameReturned(fr, r.val)]
  ELSE [self |-> self, fr |-> [fr EXCEPT !.pc = NextStep(fr.pc), !.sensors = r.val]]

ExtractStep(self, fr) == AfterExtract(self, fr, ExtractCall(self, fr))

get_sensors_step(self, fr) ==
  IF fr.pc = "resolve" THEN ResolveStep(self, fr) ELSE ExtractStep(self, fr)

\* one invocation run from its frame to its end without interruption
RECURSIVE RunFrame(_)
RunFrame(r) == IF r.fr.pc = "done" THEN r ELSE RunFrame(get_sensors_step(r.self, r.fr))

get_sensors(self, response) == RunFrame([self |-> self, fr |-> NewFrame(response)])

(***************************************************************************)
(* str.encode, base64.b64encode, bytes.decode and str.lower on the text of  *)
(* this module: printable ASCII without the grave accent, and the          *)
(* characters with the codes 192..255                                      *)
(***************************************************************************)
\* the code point of a character
Ord(c) ==
  IF \E i \in 1..Len(Printable) : Ch(Printable, i) = c
  THEN 31 + CHOOSE i \in 1..Len(Printable) : Ch(Printable, i) = c
  ELSE IF \E i \in 1..Len(PrintableLower) : Ch(PrintableLower, i) = c
  THEN 96 + CHOOSE i \in 1..Len(PrintableLower) : Ch(PrintableLower, i) = c
  ELSE 191 + CHOOSE i \in 1..Len(Latin1Letters) : Ch(Latin1Letters, i) = c

\* the UTF-8 bytes of a character: one below code 128, two from 192 to 255
Utf8(n) == IF n < 128 THEN <<n>> ELSE <<195, n - 64>>

\* s.encode()
RECURSIVE Encode(_)
Encode(s) == IF s = "" THEN <<>> ELSE Utf8(Ord(Ch(s, 1))) \o Encode(SubSeq(s, 2, Len(s)))

B64Alphabet == "ABCDEFGHIJKLMNOPQRSTUVWXYZabcdefghijklmnopqrstuvwxyz0123456789+/"

B64Char(n) == Ch(B64Alphabet, n + 1)

\* base64.b64encode(b).decode(): four characters for every three bytes,
\* padded with = when one or two bytes are left
RECURSIVE b64encode(_)
b64encode(b) ==
  IF Len(b) = 0 THEN ""
  ELSE IF Len(b) = 1
  THEN B64Char(b[1] \div 4) \o B64Char((b[1] % 4) * 16) \o "=="
  ELSE IF Len(b) = 2
  THEN B64Char(b[1] \div 4) \o B64Char((b[1] % 4) * 16 + b[2] \div 16)
         \o B64Char((b[2] % 16) * 4) \o "="
  ELSE B64Char(b[1] \div 4) \o B64Char((b[1] % 4) * 16 + b[2] \div 16)
         \o B64Char((b[2] % 16) * 4 + b[3] \div 64) \o B64Char(b[3] % 64)
         \o b64encode(SubSeq(b, 4, Len(b)))

\* the cased characters of the alphabet: A-Z and the capital letters of the
\* Latin-1 range, each with its lower-case form at the same position
UpperLetters == "ABCDEFGHIJKLMNOPQRSTUVWXYZÀÁÂÃÄÅÆÇÈÉÊËÌÍÎÏÐÑÒÓÔÕÖØÙÚÛÜÝÞ"

LowerLetters == "abcdefghijklmnopqrstuvwxyzàáâãäåæçèéêëìíîïðñòóôõöøùúûüýþ"

LowerCh(c) ==
  IF \E i \in 1..Len(UpperLetters) : Ch(UpperLetters, i) = c
  THEN Ch(LowerLetters, CHOOSE i \in 1..Len(UpperLetters) : Ch(UpperLetters, i) = c)
  ELSE c

\* s.lower()
RECURSIVE Lower(_)
Lower(s) == IF s = "" THEN "" ELSE LowerCh(Ch(s, 1)) \o Lower(SubSeq(s, 2, Len(s)))

\* f"{v}" for None, a bool, a str or an int
Str(v) ==
  CASE v.t = "none" -> "None"
    [] v.t = "bool" -> IF v.b THEN "True" ELSE "False"
    [] v.t = "str" -> v.s
    [] v.t = "int" -> IF v.i < 0 THEN "-" \o IntStr(0 - v.i) ELSE IntStr(v.i)

(***************************************************************************)
(* __init__, authorize, get_json_response and fetch_data                   *)
(***************************************************************************)
\* the instance after __init__ (the requests.Session is left out)
EcoflowInit(serialnumber, username, password) ==
  [sn |-> serialnumber,
   first_sn |-> Unset, second_sn |-> Unset,
   master_sn |-> Unset, slave_sn |-> Unset,
   master_data |-> Unset, slave_data |-> Unset,
   unique_id |-> serialnumber,
   ecoflow_username |-> username, ecoflow_password |-> password,
   token |-> NoneV, device |-> NoneV, user_id |-> Unset,
   url_iot_app |-> "https://api.ecoflow.com/auth/login",
   url_user_fetch |->
     "https://api-e.ecoflow.com/provider-service/user/device/detail?sn="
       \o serialnumber]

get_device(self) ==
  JDict(<<Item("product", JStr("PowerOcean")), Item("vendor", JStr("Ecoflow")),
          Item("serial", JStr(self.sn)), Item("version", JStr("5.1.15")),
          Item("build", JStr("6")), Item("name", JStr("PowerOcean")),
          Item("features", JStr("Photovoltaik"))>>)

\* what requests.post / requests.get gives: a reply or an exception
Reply(status_code, text) == [kind |-> "reply", status_code |-> status_code, text |-> text]

Failure(exc) == [kind |-> "raise", exc |-> exc, status_code |-> 0, text |-> ""]

\* the builtin ConnectionError and its subclasses, which `except
\* ConnectionError` catches: the module imports no other class of that name.
\* http.client, which requests imports, defines RemoteDisconnected as a
\* subclass of ConnectionResetError; it is listed under its bare and its
\* qualified name
ConnectionErrors ==
  {"ConnectionError", "BrokenPipeError", "ConnectionAbortedError",
   "ConnectionRefusedError", "ConnectionResetError",
   "RemoteDisconnected", "http.client.RemoteDisconnected"}

IsConnectionError(exc) == exc \in ConnectionErrors

\* RequestException and its subclasses in requests.exceptions, under their
\* qualified names: requests.exceptions.ConnectionError is none of the
\* builtin classes above
RequestExceptions ==
  {"requests.exceptions.RequestException",
   "requests.exceptions.InvalidJSONError", "requests.exceptions.JSONDecodeError",
   "requests.exceptions.HTTPError", "requests.exceptions.ConnectionError",
   "requests.exceptions.ProxyError", "requests.exceptions.SSLError",
   "requests.exceptions.Timeout", "requests.exceptions.ConnectTimeout",
   "requests.exceptions.ReadTimeout", "requests.exceptions.URLRequired",
   "requests.exceptions.TooManyRedirects", "requests.exceptions.MissingSchema",
   "requests.exceptions.InvalidSchema", "requests.exceptions.InvalidURL",
   "requests.exceptions.InvalidHeader", "requests.exceptions.InvalidProxyURL",
   "requests.exceptions.ChunkedEncodingError",
   "requests.exceptions.ContentDecodingError",
   "requests.exceptions.StreamConsumedError", "requests.exceptions.RetryError",
   "requests.exceptions.UnrewindableBodyError"}

IsRequestException(exc) == exc \in RequestExceptions

\* response["message"] and the comparison of its lower case with success
MessageChecked(response, response_message) ==
  IF response_message.exc # "" THEN Raise("Exception")
  ELSE IF response_message.val.t # "str" THEN Raise("AttributeError")
  ELSE IF Lower(response_message.val.s) # "success" THEN Raise("Exception")
  ELSE Ok(response)

ResponseChecked(response) ==
  IF response.exc # "" THEN Raise("Exception")
  ELSE MessageChecked(response.val, GetItem(response.val, "message"))

get_json_response(request) ==
  IF request.status_code # 200 THEN Raise("Exception")
  ELSE ResponseChecked(json_loads(JStr(request.text)))

\* the call of an operation as its caller sees it, with the instance after it
Called(self, sent, exc, result) ==
  [self |-> self, sent |-> sent, exc |-> exc, result |-> result]

\* except KeyError as key: raise Exception(...)
KeyErrorCaught(exc) == IF exc = "KeyError" THEN "Exception" ELSE exc

\* authorize, lines 76-79: except ConnectionError: raise IntegrationError
LoginCaught(exc) == IF IsConnectionError(exc) THEN "IntegrationError" ELSE exc

\* fetch_data, lines 139-147: except ConnectionError, except RequestException
FetchCaught(exc) ==
  IF IsConnectionError(exc) \/ IsRequestException(exc) THEN "IntegrationError"
  ELSE exc

\* {user_name}: a set display takes hashable members only
Hashable(v) == v.t \notin {"list", "dict"}

\* v.get(k, default)
Get(v, k, default) ==
  IF v.t # "dict" THEN Raise("AttributeError")
  ELSE IF HasKey(v.items, k) THEN Ok(Lookup(v.items, k)) ELSE Ok(default)

(***************************************************************************)
(* authorize, fetch_data and get_device statement by statement.  An        *)
(* operation holds the locals of one invocation and the statement it       *)
(* stands at; every statement reads and writes the instance attributes at  *)
(* the moment it runs.                                                     *)
(***************************************************************************)
IdleOperation ==
  [op |-> "idle", pc |-> "idle", sent |-> NoneV, request |-> NoneV,
   response |-> NoneV, user_name |-> NoneV, fr |-> IdleFrame,
   exc |-> "", result |-> NoneV]

NewOperation(op) ==
  [IdleOperation EXCEPT !.op = op,
                        !.pc = IF op = "authorize" THEN "password" ELSE "headers"]

OperationRaised(o, e) == [o EXCEPT !.pc = "done", !.exc = e]

OperationReturned(o, result) == [o EXCEPT !.pc = "done", !.result = result]

LoginData(self) ==
  [email |-> self.ecoflow_username,
   password |-> b64encode(Encode(self.ecoflow_password)),
   scene |-> "IOT_APP", userType |-> "ECOFLOW"]

PasswordSet(self) == [self EXCEPT !.ecoflow_password = "passwordforR&Duse123"]

\* lines 57-62
PasswordStep(self, o) == [self |-> PasswordSet(self), o |-> [o EXCEPT !.pc = "data"]]

\* lines 63-69
DataStep(self, o) ==
  [self |-> self, o |-> [o EXCEPT !.pc = "post", !.sent = LoginData(self)]]

\* lines 71-73: requests.post returns a reply or raises
PostStep(self, o, request) ==
  [self |-> self,
   o |-> IF request.kind = "raise" THEN OperationRaised(o, LoginCaught(request.exc))
         ELSE [o EXCEPT !.pc = "response", !.request = request]]

\* line 74
LoginResponse(o, response) ==
  IF response.exc # "" THEN OperationRaised(o, LoginCaught(response.exc))
  ELSE [o EXCEPT !.pc = "token", !.response = response.val]

LoginResponseStep(self, o) ==
  [self |-> self, o |-> LoginResponse(o, get_json_response(o.request))]

\* line 82
TokenStep(self, o) ==
  LET token == Bind(GetItem(o.response, "data"), LAMBDA d : GetItem(d, "token"))
  IN  IF token.exc # ""
      THEN [self |-> self, o |-> OperationRaised(o, KeyErrorCaught(token.exc))]
      ELSE [self |-> [self EXCEPT !.token = token.val],
            o |-> [o EXCEPT !.pc = "user_id"]]

\* line 83
UserIdStep(self, o) ==
  LET user_id == Bind(Bind(GetItem(o.response, "data"), LAMBDA d : GetItem(d, "user")),
                      LAMBDA user : GetItem(user, "userId"))
  IN  IF user_id.exc # ""
      THEN [self |-> self, o |-> OperationRaised(o, KeyErrorCaught(user_id.exc))]
      ELSE [self |-> [self EXCEPT !.user_id = user_id.val],
            o |-> [o EXCEPT !.pc = "user_name"]]

\* lines 84-85
UserNameStep(self, o) ==
  LET user_name == Bind(Bind(GetItem(o.response, "data"), LAMBDA d : GetItem(d, "user")),
                        LAMBDA user : Get(user, "name", JStr("<no user name>")))
  IN  [self |-> self,
       o |-> IF user_name.exc # "" THEN OperationRaised(o, KeyErrorCaught(user_name.exc))
             ELSE [o EXCEPT !.pc = "logged", !.user_name = user_name.val]]

\* line 89: _LOGGER.info("Successfully logged in: %s", {user_name}); the try
\* of lines 90-93 catches its own NameError
LoggedStep(self, o) ==
  [self |-> self,
   o |-> IF Hashable(o.user_name) THEN [o EXCEPT !.pc = "device"]
         ELSE OperationRaised(o, "TypeError")]

\* line 95
DeviceStep(self, o) ==
  [self |-> [self EXCEPT !.device = get_device(self)], o |-> [o EXCEPT !.pc = "return"]]

\* line 97
ReturnStep(self, o) == [self |-> self, o |-> OperationReturned(o, JBool(TRUE))]

\* the statement the operation stands at; request is what requests.post gives
authorize_step(self, o, request) ==
  CASE o.pc = "password" -> PasswordStep(self, o)
    [] o.pc = "data" -> DataStep(self, o)
    [] o.pc = "post" -> PostStep(self, o, request)
    [] o.pc = "response" -> LoginResponseStep(self, o)
    [] o.pc = "token" -> TokenStep(self, o)
    [] o.pc = "user_id" -> UserIdStep(self, o)
    [] o.pc = "user_name" -> UserNameStep(self, o)
    [] o.pc = "logged" -> LoggedStep(self, o)
    [] o.pc = "device" -> DeviceStep(self, o)
    [] o.pc = "return" -> ReturnStep(self, o)

FetchHeaders(self) == [authorization |-> "Bearer " \o Str(self.token)]

\* lines 126-130
HeadersStep(self, o) ==
  [self |-> self, o |-> [o EXCEPT !.pc = "get", !.sent = FetchHeaders(self)]]

\* line 131: requests.get returns a reply or raises
GetStep(self, o, request) ==
  [self |-> self,
   o |-> IF request.kind = "raise" THEN OperationRaised(o, FetchCaught(request.exc))
         ELSE [o EXCEPT !.pc = "response", !.request = request]]

\* line 132
FetchResponse(o, response) ==
  IF response.exc # "" THEN OperationRaised(o, FetchCaught(response.exc))
  ELSE [o EXCEPT !.pc = "sensors", !.response = response.val,
                 !.fr = NewFrame(response.val)]

FetchResponseStep(self, o) ==
  [self |-> self, o |-> FetchResponse(o, get_json_response(o.request))]

\* line 137, return self._get_sensors(response): what _get_sensors returns
\* (None after its bare return) or raises
SensorsReturned(o, fr) ==
  IF fr.status = "raised" THEN OperationRaised(o, FetchCaught(fr.exc))
  ELSE IF fr.status = "none" THEN OperationReturned(o, NoneV)
  ELSE OperationReturned(o, JDict(fr.sensors))

\* one statement of the _get_sensors that line 137 calls
AfterSensorsStep(o, r) ==
  [self |-> r.self,
   o |-> IF r.fr.pc = "done" THEN SensorsReturned([o EXCEPT !.fr = r.fr], r.fr)
         ELSE [o EXCEPT !.fr = r.fr]]

SensorsStep(self, o) == AfterSensorsStep(o, get_sensors_step(self, o.fr))

\* the statement the operation stands at; request is what requests.get gives
fetch_data_step(self, o, request) ==
  CASE o.pc = "headers" -> HeadersStep(self, o)
    [] o.pc = "get" -> GetStep(self, o, request)
    [] o.pc = "response" -> FetchResponseStep(self, o)
    [] o.pc = "sensors" -> SensorsStep(self, o)

\* an operation run from its first statement to its end without interruption
RECURSIVE RunAuthorize(_, _)
RunAuthorize(r, request) ==
  IF r.o.pc = "done" THEN r ELSE RunAuthorize(authorize_step(r.self, r.o, request), request)

RECURSIVE RunFetchData(_, _)
RunFetchData(r, request) ==
  IF r.o.pc = "done" THEN r ELSE RunFetchData(fetch_data_step(r.self, r.o, request), request)

OperationDone(r) == Called(r.self, r.o.sent, r.o.exc, r.o.result)

\* request is what requests.post gives for the login
authorize(self, request) ==
  OperationDone(RunAuthorize([self |-> self, o |-> NewOperation("authorize")], request))

\* request is what requests.get gives for the device detail
fetch_data(self, request) ==
  OperationDone(RunFetchData([self |-> self, o |-> NewOperation("fetch_data")], request))

(***************************************************************************)
(* Responses of the cloud API, as get_json_response hands them over        *)
(***************************************************************************)
OtherSerial == "J32EZEH4ZG3S0077"

ThirdSerial == "J32EZEH4ZG3S0005"

PackA == "HJ32ZDH4ZF7E0011"

PackB == "HJ32ZDH4ZF7E0029"

\* the JSON text of one battery pack
PackText(soc) ==
  "{\"bpPwr\": 40, \"bpSoc\": " \o IntStr(soc)
    \o ", \"bpSn\": \"x\", \"bpTemp\": [20, 22, 24]}"

BrokenPackText == "{\"bpPwr\": 40, \"bpSoc\": "

ChangeReport(v) ==
  JDict(<<Item("bpSoc", JInt(v)), Item("emsWordMode", JStr("NORMAL")),
          Item("mppt1FaultCode", JInt(0)), Item("updateTime", JStr("t"))>>)

BatteryReport(v, textB) ==
  JDict(<<Item("updateTime", JStr("t")),
          Item(PackA, JStr(PackText(v))),
          Item(PackB, JStr(textB))>>)

Phase(v) == JDict(<<Item("vol", JInt(230)), Item("amp", JInt(v))>>)

Heartbeat(v) ==
  JDict(<<Item("pcsActPwr", JInt(v)), Item("emsBpAliveNum", JInt(2)),
          Item("pcsAPhase", Phase(v)), Item("pcsBPhase", Phase(v)),
          Item("pcsCPhase", Phase(v)),
          Item("mpptHeartBeat",
               JList(<<JDict(<<Item("mpptPv",
                 JList(<<JDict(<<Item("vol", JInt(300)), Item("pwr", JInt(100))>>),
                         JDict(<<Item("pwr", JInt(v)), Item("amp", JInt(2))>>)>>))>>)>>))>>)

\* one inverter's report tree; shape names what is wrong with it, if anything
Tree(v, shape) ==
  JDict(
    (IF shape = "noChange" THEN <<>>
     ELSE <<Item("JTS1_EMS_CHANGE_REPORT", ChangeReport(v))>>)
    \o (IF shape = "noBattery" THEN <<>>
        ELSE <<Item("JTS1_BP_STA_REPORT",
                    BatteryReport(v, IF shape = "brokenPack" THEN BrokenPackText
                                     ELSE PackText(v + 1)))>>)
    \o (IF shape = "noHeartbeat" THEN <<>>
        ELSE <<Item("JTS1_EMS_HEARTBEAT", Heartbeat(v))>>))

\* the response: the scalars of data, data.quota and, if given, data.parallel
Response(v, quotaShape, withParallel, parallel) ==
  JDict(<<Item("code", JStr("0")), Item("message", JStr("Success")),
          Item("data",
               JDict(<<Item("sysLoadPwr", JInt(v)), Item("systemName", JStr("home")),
                       Item("location", JStr("x")),
                       Item("quota", Tree(v, quotaShape))>>
                     \o (IF withParallel THEN <<Item("parallel", JDict(parallel))>>
                         ELSE <<>>)))>>)

Shapes == {"full", "noChange", "noBattery", "noHeartbeat", "brokenPack"}

\* data.parallel for serials in the given order, the first tree of the given shape
Parallel(v, serials, shape) ==
  [n \in 1..Len(serials) |->
     Item(serials[n], Tree(v + 10 * n, IF n = 1 THEN shape ELSE "full"))]

SingleResponses == {Response(1, shape, FALSE, <<>>) : shape \in Shapes}

DualResponses ==
  {Response(v, "full", TRUE, Parallel(v, <<ProbedMaster, ProbedSlave>>, shape)) :
     v \in {1, 2}, shape \in Shapes}
  \cup {Response(1, "full", TRUE, Parallel(1, <<ProbedSlave, ProbedMaster>>, shape)) :
          shape \in {"full", "noHeartbeat"}}
  \cup {Response(1, "full", TRUE, Parallel(1, <<OtherSerial, ThirdSerial>>, "full"))}

OtherResponses ==
  {Response(1, "full", TRUE, Parallel(1, serials, "full")) :
     serials \in {<<>>, <<ProbedMaster>>, <<OtherSerial>>,
                  <<ProbedMaster, ProbedSlave, OtherSerial>>,
                  <<OtherSerial, ProbedSlave, ProbedMaster>>,
                  <<OtherSerial, ThirdSerial, ProbedMaster>>}}

\* a Dual response whose data also carries the battery power and, under an
\* allow-listed key, an array
ArrayResponse ==
  JDict(<<Item("code", JStr("0")), Item("message", JStr("Success")),
          Item("data",
               JDict(<<Item("sysLoadPwr", JInt(1)), Item("bpPwr", JInt(5)),
                       Item("mpptPwr", JList(<<JInt(1), JInt(2)>>)),
                       Item("quota", Tree(1, "full")),
                       Item("parallel",
                            JDict(Parallel(1, <<ProbedMaster, ProbedSlave>>,
                                           "full")))>>))>>)

Responses == SingleResponses \cup DualResponses \cup OtherResponses \cup {ArrayResponse}

\* the responses of two fetches that overlap
OverlapResponses ==
  {Response(v, "full", TRUE, Parallel(v, <<ProbedMaster, ProbedSlave>>, "full")) :
     v \in {1, 2}}
  \cup {Response(1, "full", TRUE, Parallel(1, <<ProbedSlave, ProbedMaster>>, "full")),
        Response(1, "full", TRUE,
                 Parallel(1, <<ProbedMaster, ProbedSlave, OtherSerial>>, "full")),
        Response(1, "full", FALSE, <<>>)}

\* a configured serial whose root id for bpPwr is the id of a pack record
CollidingSerial == ProbedMaster \o "_JTS1_BP_STA_REPORT_" \o PackA

ConfiguredSerials == {ProbedMaster, ProbedSlave, OtherSerial, CollidingSerial}

(***************************************************************************)
(* State: the instance, the invocations of _get_sensors in progress and    *)
(* the record of the finished fetches                                      *)
(***************************************************************************)
MaxCalls == 2

Calls == {1, 2}

VARIABLES self, calls, log

vars == <<self, calls, log>>

\* what the caller of _get_sensors observes, with the resolver's signal
Completed(fr) ==
  [response |-> fr.response, serials |-> fr.serials, status |-> fr.status,
   exc |-> fr.exc, sensors |-> fr.sensors]

Init ==
  /\ \E serialnumber \in ConfiguredSerials : self = Ecoflow(serialnumber)
  /\ calls = [c \in Calls |-> IdleFrame]
  /\ log = <<>>

\* fetch_data hands a response to _get_sensors, which runs to its end
GetSensors(response) ==
  /\ Len(log) < MaxCalls
  /\ \A c \in Calls : calls[c].pc = "idle"
  /\ \E r \in {get_sensors(self, response)} :
       /\ self' = r.self
       /\ log' = Append(log, Completed(r.fr))
  /\ UNCHANGED calls

Next == \E response \in Responses : GetSensors(response)

Spec == Init /\ [][Next]_vars

\* two fetches on the same instance, their statements interleaved
OverlapSerials == {ProbedMaster}

InitOverlap ==
  /\ \E serialnumber \in OverlapSerials : self = Ecoflow(serialnumber)
  /\ calls = [c \in Calls |-> IdleFrame]
  /\ log = <<>>

\* the calls are numbered in the order in which they begin
Begin(c, response) ==
  /\ calls[c].pc = "idle"
  /\ \A earlier \in Calls : earlier < c => calls[earlier].pc # "idle"
  /\ calls' = [calls EXCEPT ![c] = NewFrame(response)]
  /\ UNCHANGED <<self, log>>

Resolve(c) ==
  /\ calls[c].pc = "resolve"
  /\ \E r \in {ResolveStep(self, calls[c])} :
       /\ self' = r.self
       /\ calls' = [calls EXCEPT ![c] = r.fr]
  /\ UNCHANGED log

Extract(c) ==
  /\ calls[c].pc \in {"data"} \cup MasterSteps \cup SlaveSteps
  /\ calls' = [calls EXCEPT ![c] = ExtractStep(self, calls[c]).fr]
  /\ UNCHANGED <<self, log>>

NextOverlap ==
  \E c \in Calls :
    \/ \E response \in OverlapResponses : Begin(c, response)
    \/ Resolve(c)
    \/ Extract(c)

SpecOverlap == InitOverlap /\ [][NextOverlap]_vars

(***************************************************************************)
(* The extractors applied on their own to a document, as _get_sensors      *)
(* calls them: the root extractor with the response, the others with a     *)
(* report tree, the serial of its inverter and the suffix of its role      *)
(***************************************************************************)
MaxExtractions == 1

\* a response with nested values under allow-listed keys of data
NestedResponse ==
  JDict(<<Item("code", JStr("0")), Item("message", JStr("Success")),
          Item("data",
               JDict(<<Item("sysGridPwr", JInt(3)), Item("online", JBool(TRUE)),
                       Item("systemName", JDict(<<Item("name", JStr("home"))>>)),
                       Item("createTime", JList(<<JStr("2024"), JStr("12")>>)),
                       Item("timezone", JStr("UTC")),
                       Item("todayElectricityGeneration", JInt(7)),
                       Item("quota", Tree(1, "noBattery"))>>))>>)

RootDocuments ==
  {Response(1, "full", FALSE, <<>>), ArrayResponse, NestedResponse,
   Response(2, "full", TRUE, Parallel(2, <<OtherSerial, ThirdSerial>>, "full"))}

\* a change report with keys around the mppt...Code pattern
CodesChangeReport ==
  JDict(<<Item("bpTotalChgEnergy", JInt(900)), Item("bpOnlineSum", JInt(2)),
          Item("mppt1WarningCode", JInt(0)), Item("mpptCode", JInt(0)),
          Item("mppt2FaultCodeHistory", JInt(4)), Item("pcsMpptCode", JInt(1)),
          Item("mppt1Fault", JInt(0)), Item("emsCtrlLedBright", JInt(50)),
          Item("bpSocLimit", JInt(90))>>)

ChangeDocuments ==
  {Tree(1, "full"), Tree(3, "noChange"),
   JDict(<<Item("JTS1_EMS_CHANGE_REPORT", CodesChangeReport)>>)}

ShortKey == "HJ32ZDH4ZF7E"

ThirteenKey == "HJ32ZDH4ZF7E0"

\* a battery report with a key of 12 characters between its packs
MixedBatteryReport ==
  JDict(<<Item(PackA, JStr(PackText(55))),
          Item(ShortKey, JStr(PackText(56))),
          Item("updateTime", JStr("t")),
          Item(ThirteenKey,
               JStr("{\"bpVol\": 52, \"bpAmp\": 3, \"bpTemp\": [20, 21], \"bpErr\": 0}")),
          Item(PackB, JStr("{\"bpTemp\": [25.5, 24], \"bpCycles\": 12}"))>>)

BatteryDocuments ==
  {Tree(1, "full"), Tree(3, "noBattery"), Tree(1, "brokenPack"),
   JDict(<<Item("JTS1_BP_STA_REPORT", MixedBatteryReport)>>)}

\* a heartbeat with every allow-listed key, keys near them, phases of
\* different fields and three PV strings
RichHeartbeat ==
  JDict(<<Item("bpRemainWatth", JInt(5000)), Item("emsBpAliveNumber", JInt(9)),
          Item("emsBpAliveNum", JInt(2)), Item("PcsActPwr", JInt(1)),
          Item("emsBpPower", JInt(-300)), Item("pcsActPwr", JInt(700)),
          Item("pcsMeterPower", JInt(20)), Item("sysGridPwr", JInt(4)),
          Item("pcsAPhase", JDict(<<Item("vol", JInt(231)), Item("amp", JInt(3)),
                                    Item("actPwr", JInt(690))>>)),
          Item("pcsBPhase", JDict(<<>>)),
          Item("pcsCPhase", JDict(<<Item("reactPwr", JInt(12))>>)),
          Item("mpptHeartBeat",
               JList(<<JDict(<<Item("mpptPv",
                 JList(<<JDict(<<Item("pwr", JInt(100)), Item("vol", JInt(300))>>),
                         JDict(<<Item("pwr", JInt(150))>>),
                         JDict(<<Item("amp", JInt(1)), Item("pwr", JInt(50))>>)>>))>>),
                       JDict(<<Item("mpptPv", JList(<<>>))>>)>>))>>)

\* a heartbeat without PV strings
NoStringsHeartbeat ==
  JDict(<<Item("pcsActPwr", JInt(0)),
          Item("pcsAPhase", Phase(1)), Item("pcsBPhase", Phase(2)),
          Item("pcsCPhase", Phase(3)),
          Item("mpptHeartBeat", JList(<<JDict(<<Item("mpptPv", JList(<<>>))>>)>>))>>)

\* a heartbeat whose third phase is missing
TwoPhaseHeartbeat ==
  JDict(<<Item("pcsActPwr", JInt(8)), Item("emsBpPower", JInt(9)),
          Item("pcsAPhase", Phase(1)), Item("pcsBPhase", Phase(2)),
          Item("mpptHeartBeat",
               JList(<<JDict(<<Item("mpptPv",
                 JList(<<JDict(<<Item("pwr", JInt(10))>>)>>))>>)>>))>>)

\* a heartbeat whose strings report 100.5 W and 50.25 W
FractionsHeartbeat ==
  JDict(<<Item("emsBpPower", JFloat(-7, 2)),
          Item("pcsAPhase", Phase(1)), Item("pcsBPhase", Phase(2)),
          Item("pcsCPhase", Phase(3)),
          Item("mpptHeartBeat",
               JList(<<JDict(<<Item("mpptPv",
                 JList(<<JDict(<<Item("pwr", JFloat(201, 2))>>),
                         JDict(<<Item("vol", JInt(300)),
                                 Item("pwr", JFloat(201, 4))>>)>>))>>)>>))>>)

HeartbeatDocuments ==
  {Tree(1, "full"), Tree(3, "noHeartbeat")}
    \cup {JDict(<<Item("JTS1_EMS_HEARTBEAT", heartbeat)>>) :
            heartbeat \in {RichHeartbeat, NoStringsHeartbeat, TwoPhaseHeartbeat,
                           FractionsHeartbeat}}

\* the serial and the suffix _get_sensors passes for a root
Roles == {<<ProbedMaster, "_master">>, <<ProbedSlave, "_slave">>, <<ProbedSlave, "">>}

\* what one extractor call was given and what it gave
Extracted(extractor, document, inverter_sn, inverter_string, r) ==
  [extractor |-> extractor, document |-> document, inverter_sn |-> inverter_sn,
   inverter_string |-> inverter_string, exc |-> r.exc,
   sensors |-> IF r.exc = "" THEN r.val ELSE <<>>]

ExtractData(response) ==
  /\ Len(log) < MaxExtractions
  /\ log' = Append(log, Extracted("data", response, self.sn, "",
                                  get_sensors_data(self.sn, response)))
  /\ UNCHANGED <<self, calls>>

ExtractChange(tree, inverter_sn, inverter_string) ==
  /\ Len(log) < MaxExtractions
  /\ log' = Append(log, Extracted("change", tree, inverter_sn, inverter_string,
                                  get_sensors_ems_change(tree, <<>>, inverter_sn,
                                                         inverter_string)))
  /\ UNCHANGED <<self, calls>>

ExtractBattery(tree, inverter_sn, inverter_string) ==
  /\ Len(log) < MaxExtractions
  /\ log' = Append(log, Extracted("battery", tree, inverter_sn, inverter_string,
                                  get_sensors_battery(tree, <<>>, inverter_sn,
                                                      inverter_string)))
  /\ UNCHANGED <<self, calls>>

ExtractHeartbeat(tree, inverter_sn, inverter_string) ==
  /\ Len(log) < MaxExtractions
  /\ log' = Append(log, Extracted("heartbeat", tree, inverter_sn, inverter_string,
                                  get_sensors_ems_heartbeat(self.sn, tree, <<>>,
                                                            inverter_sn,
                                                            inverter_string)))
  /\ UNCHANGED <<self, calls>>

NextExtractors ==
  \/ \E response \in RootDocuments : ExtractData(response)
  \/ \E role \in Roles :
       \/ \E tree \in ChangeDocuments : ExtractChange(tree, role[1], role[2])
       \/ \E tree \in BatteryDocuments : ExtractBattery(tree, role[1], role[2])
       \/ \E tree \in HeartbeatDocuments : ExtractHeartbeat(tree, role[1], role[2])

SpecExtractors == Init /\ [][NextExtractors]_vars

(***************************************************************************)
(* The two helpers of the extractors applied on their own to a key         *)
(***************************************************************************)
UnitKeys ==
  {"bpAmp", "sysLoadPwr", "totalElectricityGeneration", "systemName", "pwr",
   "emsBpPower", "amp", "bpSoc", "soc", "bpSoh", "soh", "vol", "bpVol",
   "bpRemainWatth", "bpTotalChgEnergy", "bpTemp", "bpTempMax", "GenerationPwr",
   "bpTempVol", "bpTempGeneration", "PWR", "power", "sysloadpwr", "Ampere",
   "EnergyAmp", "PowerSocket", "", "W"}

DescriptionKeys ==
  {"sysLoadPwr", "sysGridPwr", "mpptPwr", "bpPwr", "bpSoc", "online",
   "systemName", "createTime", "bpVol", "bpAmp", "bpCycles", "bpTemp",
   "SysLoadPwr", "sysloadpwr", "bpSocMax", "xbpVol", "bpTemp1", "Online",
   "updateTime", "emsWordMode", "", "Hausnetz"}

\* what a helper was given and what it gave
Helped(helper, key, result) == [helper |-> helper, key |-> key, result |-> result]

GetUnit(key) ==
  /\ Len(log) < MaxExtractions
  /\ log' = Append(log, Helped("unit", key, get_unit(key)))
  /\ UNCHANGED <<self, calls>>

GetDescription(key) ==
  /\ Len(log) < MaxExtractions
  /\ log' = Append(log, Helped("description", key, JStr(get_description(key))))
  /\ UNCHANGED <<self, calls>>

NextHelpers ==
  \/ \E key \in UnitKeys : GetUnit(key)
  \/ \E key \in DescriptionKeys : GetDescription(key)

SpecHelpers == Init /\ [][NextHelpers]_vars

(***************************************************************************)
(* One extractor call statement by statement: the dict object passed as    *)
(* sensors, the local dict data the loops fill, and dict.update at the end *)
(***************************************************************************)
\* the extractor runs in the frame of the first call
StepCall == CHOOSE c \in Calls : \A other \in Calls : c <= other

ReportOf(extractor) ==
  CASE extractor = "change" -> "JTS1_EMS_CHANGE_REPORT"
    [] extractor = "battery" -> "JTS1_BP_STA_REPORT"
    [] extractor = "heartbeat" -> "JTS1_EMS_HEARTBEAT"

FirstBlock(extractor) ==
  CASE extractor = "change" -> "keys"
    [] extractor = "battery" -> "packs"
    [] extractor = "heartbeat" -> "scalars"

\* the frame of an extractor at its first statement; passed keeps the map
\* as it was handed over
StepFrame(extractor, inverter_data, inverter_sn, inverter_string, sensors) ==
  [extractor |-> extractor, inverter_data |-> inverter_data,
   inverter_sn |-> inverter_sn, inverter_string |-> inverter_string,
   passed |-> sensors, sensors |-> sensors, data |-> <<>>, key |-> "", i |-> 0,
   pc |-> "report", exc |-> ""]

StepRaised(fr, e) == [fr EXCEPT !.pc = "raised", !.exc = e]

\* d = inverter_data[report]
ReportRead(fr, d) ==
  IF d.exc # "" THEN StepRaised(fr, d.exc)
  ELSE IF d.val.t # "dict" THEN StepRaised(fr, "AttributeError")
  ELSE [fr EXCEPT !.pc = FirstBlock(fr.extractor)]

D(fr) == Lookup(fr.inverter_data.items, ReportOf(fr.extractor))

LastKey(items, key) == IF items = <<>> THEN key ELSE items[Len(items)].k

\* the loop over the keys of the change report
KeysStep(fr) ==
  [fr EXCEPT !.data = ChangeLoop(fr.inverter_sn, fr.inverter_string,
                                 D(fr).items, <<>>),
             !.pc = "update"]

\* the loop over the scalar keys of the heartbeat
ScalarsStep(fr) ==
  [fr EXCEPT !.data = HeartbeatLoop(fr.inverter_sn, fr.inverter_string,
                                    D(fr).items, <<>>),
             !.key = LastKey(D(fr).items, ""),
             !.pc = "phases", !.i = 1]

\* dict.update(sensors, data); return sensors
UpdateStep(fr) ==
  [fr EXCEPT !.sensors = Update(fr.sensors, fr.data), !.pc = "returned"]

\* one pass of the loop over the packs has run; r is the local data after
\* it, written the local data where it stopped
PackStepWriteThrough(fr, r, written) ==
  IF r.exc # ""
  THEN [StepRaised(fr, r.exc) EXCEPT !.data = written,
                                     !.sensors = Update(fr.sensors, written)]
  ELSE [fr EXCEPT !.data = r.val, !.i = fr.i + 1,
                  !.sensors = Update(fr.sensors, r.val)]

PackStep(fr, r, written) ==
  IF r.exc # "" THEN [StepRaised(fr, r.exc) EXCEPT !.data = written]
  ELSE [fr EXCEPT !.data = r.val, !.i = fr.i + 1]

\* one pass of the loop over the phases; p is d[phase]
PhaseStep(fr, p) ==
  IF p.exc # "" THEN StepRaised(fr, p.exc)
  ELSE IF p.val.t # "dict" THEN StepRaised(fr, "AttributeError")
  ELSE [fr EXCEPT !.data = PhaseLoop(fr.inverter_sn, fr.inverter_string,
                                     Phases[fr.i], p.val.items, fr.data),
                  !.key = LastKey(p.val.items, fr.key),
                  !.i = fr.i + 1]

\* the PV strings and their total; strings is what the loops left, r the
\* local data with the total
StringsStep(fr, strings, r) ==
  IF strings.exc # ""
  THEN [StepRaised(fr, strings.exc) EXCEPT !.data = strings.data, !.key = strings.key]
  ELSE [fr EXCEPT !.data = r.val, !.key = strings.key, !.pc = "update"]

\* a heartbeat whose second PV string has a pwr that is not a number
StringFaultHeartbeat ==
  JDict(<<Item("pcsActPwr", JInt(8)),
          Item("pcsAPhase", Phase(1)), Item("pcsBPhase", Phase(2)),
          Item("pcsCPhase", Phase(3)),
          Item("mpptHeartBeat",
               JList(<<JDict(<<Item("mpptPv",
                 JList(<<JDict(<<Item("pwr", JInt(10))>>),
                         JDict(<<Item("pwr", JStr("n/a"))>>)>>))>>)>>))>>)

\* battery reports whose second pack has no bpTemp, or an empty one
NoTempBatteryReport ==
  JDict(<<Item(PackA, JStr(PackText(60))), Item(PackB, JStr("{\"bpSoc\": 5}"))>>)

EmptyTempBatteryReport ==
  JDict(<<Item(PackA, JStr(PackText(61))),
          Item(PackB, JStr("{\"bpSoc\": 5, \"bpTemp\": []}"))>>)

\* a battery report whose only pack has records and an empty bpTemp
OnlyEmptyTempBatteryReport ==
  JDict(<<Item(PackA, JStr("{\"bpSoc\": 5, \"bpAmp\": 1, \"bpTemp\": []}"))>>)

StepDocuments(extractor) ==
  CASE extractor = "change" -> {Tree(1, "full"), Tree(3, "noChange")}
    [] extractor = "battery" ->
         {Tree(1, "full"), Tree(1, "brokenPack")}
           \cup {JDict(<<Item("JTS1_BP_STA_REPORT", report)>>) :
                   report \in {NoTempBatteryReport, EmptyTempBatteryReport,
                               OnlyEmptyTempBatteryReport}}
    [] extractor = "heartbeat" ->
         {Tree(1, "full")}
           \cup {JDict(<<Item("JTS1_EMS_HEARTBEAT", heartbeat)>>) :
                   heartbeat \in {TwoPhaseHeartbeat, StringFaultHeartbeat}}

\* maps as _get_sensors has accumulated them when it calls an extractor
PassedMaps ==
  {RootLoop(ProbedMaster, Lookup(Response(1, "full", FALSE, <<>>).items, "data").items, <<>>),
   ChangeLoop(ProbedMaster, "_master", ChangeReport(7).items,
              RootLoop(ProbedMaster, Lookup(ArrayResponse.items, "data").items, <<>>))}

StepRoles == {<<ProbedMaster, "_master">>, <<ProbedSlave, "_slave">>}

BeginExtractor(extractor, inverter_data, role, sensors) ==
  /\ calls[StepCall].pc = "idle"
  /\ calls' = [calls EXCEPT ![StepCall] =
                 StepFrame(extractor, inverter_data, role[1], role[2], sensors)]
  /\ UNCHANGED <<self, log>>

ReadReport ==
  /\ calls[StepCall].pc = "report"
  /\ calls' = [calls EXCEPT ![StepCall] =
                 ReportRead(@, GetItem(@.inverter_data, ReportOf(@.extractor)))]
  /\ UNCHANGED <<self, log>>

ChangeKeys ==
  /\ calls[StepCall].pc = "keys"
  /\ calls' = [calls EXCEPT ![StepCall] = KeysStep(@)]
  /\ UNCHANGED <<self, log>>

BatteryPack ==
  /\ calls[StepCall].pc = "packs"
  /\ calls[StepCall].i < Len(Batts(D(calls[StepCall]).items))
  /\ calls' = [calls EXCEPT ![StepCall] =
       PackStep(@, Bind(json_loads(Lookup(D(@).items, Batts(D(@).items)[@.i + 1])),
                        LAMBDA d_bat :
                          Pack(@.inverter_sn, @.inverter_string,
                               Batts(D(@).items)[@.i + 1],
                               "bpack" \o IntStr(@.i + 1) \o "_", d_bat, @.data)),
                PackWritten(@.inverter_sn, @.inverter_string,
                            Batts(D(@).items)[@.i + 1],
                            "bpack" \o IntStr(@.i + 1) \o "_",
                            json_loads(Lookup(D(@).items, Batts(D(@).items)[@.i + 1])),
                            @.data))]
  /\ UNCHANGED <<self, log>>

BatteryPacksDone ==
  /\ calls[StepCall].pc = "packs"
  /\ calls[StepCall].i >= Len(Batts(D(calls[StepCall]).items))
  /\ calls' = [calls EXCEPT ![StepCall].pc = "update"]
  /\ UNCHANGED <<self, log>>

HeartbeatScalars ==
  /\ calls[StepCall].pc = "scalars"
  /\ calls' = [calls EXCEPT ![StepCall] = ScalarsStep(@)]
  /\ UNCHANGED <<self, log>>

HeartbeatPhase ==
  /\ calls[StepCall].pc = "phases"
  /\ calls[StepCall].i <= Len(Phases)
  /\ calls' = [calls EXCEPT ![StepCall] = PhaseStep(@, GetItem(D(@), Phases[@.i]))]
  /\ UNCHANGED <<self, log>>

HeartbeatStrings ==
  /\ calls[StepCall].pc = "phases"
  /\ calls[StepCall].i > Len(Phases)
  /\ calls' = [calls EXCEPT ![StepCall] =
                 StringsStep(@, StringsRun(self.sn, D(@), @.inverter_sn,
                                           @.inverter_string,
                                           LoopState(@.data, @.key, FZero)),
                             Strings(self.sn, D(@), <<>>, @.inverter_sn,
                                     @.inverter_string,
                                     LoopState(@.data, @.key, FZero)))]
  /\ UNCHANGED <<self, log>>

\* dict.update(sensors, data); return sensors
UpdateSensors ==
  /\ calls[StepCall].pc = "update"
  /\ calls' = [calls EXCEPT ![StepCall] = UpdateStep(@)]
  /\ UNCHANGED <<self, log>>

NextSteps ==
  \/ \E extractor \in {"change", "battery", "heartbeat"} :
       \E inverter_data \in StepDocuments(extractor) :
         \E role \in StepRoles : \E sensors \in PassedMaps :
           BeginExtractor(extractor, inverter_data, role, sensors)
  \/ ReadReport
  \/ ChangeKeys
  \/ BatteryPack
  \/ BatteryPacksDone
  \/ HeartbeatScalars
  \/ HeartbeatPhase
  \/ HeartbeatStrings
  \/ UpdateSensors

SpecSteps == Init /\ [][NextSteps]_vars

(***************************************************************************)
(* The instance with its credentials: login and fetch requests             *)
(***************************************************************************)
\* replies of the login endpoint
LoginReplies ==
  {Reply(200, "{\"code\": \"0\", \"message\": \"Success\", \"data\": {\"token\": \"tok1\", \"user\": {\"userId\": \"u1\", \"name\": \"Ann\"}}}"),
   Reply(200, "{\"message\": \"SUCCESS\", \"data\": {\"token\": \"tok2\", \"user\": {\"userId\": 7}}}"),
   Reply(200, "{\"message\": \"Success\", \"data\": {\"token\": \"tok3\"}}"),
   Reply(200, "{\"message\": \"Success\", \"data\": {\"user\": {\"userId\": \"u1\"}}}"),
   Reply(200, "{\"message\": \"Success\", \"data\": null}"),
   Reply(200, "{\"message\": \"success\", \"data\": {\"token\": \"tok4\", \"user\": {\"userId\": \"u2\", \"name\": [\"Ann\"]}}}"),
   Reply(200, "{\"message\": \"SUCCÈSS\", \"data\": {\"token\": \"tok5\"}}"),
   Reply(200, "{\"code\": \"1\", \"message\": \"wrong password\"}"),
   Reply(200, "{\"message\": 5}"),
   Reply(200, "{\"code\": \"0\"}"),
   Reply(200, "[1]"),
   Reply(200, "<html>"),
   Reply(401, "unauthorized")}

\* the text of an inverter segment with its three reports
SegmentText ==
  "{\"JTS1_EMS_CHANGE_REPORT\": {\"bpSoc\": 5}, \"JTS1_BP_STA_REPORT\": {}, "
    \o "\"JTS1_EMS_HEARTBEAT\": {\"pcsAPhase\": {}, \"pcsBPhase\": {}, "
    \o "\"pcsCPhase\": {}, \"mpptHeartBeat\": [{\"mpptPv\": []}]}}"

\* the text of a reply with both probed segments, which _get_sensors returns
\* records for
DualText ==
  "{\"message\": \"Success\", \"data\": {\"sysLoadPwr\": 3, \"quota\": {}, "
    \o "\"parallel\": {\"J32EZEH4ZG3S0104\": " \o SegmentText
    \o ", \"J32EZEH4ZG3S0042\": " \o SegmentText \o "}}}"

\* replies of the device-detail endpoint
FetchReplies ==
  {Reply(200, "{\"code\": \"0\", \"message\": \"Success\", \"data\": {\"sysLoadPwr\": 1, \"quota\": {}}}"),
   Reply(200, "{\"message\": \"Success\", \"data\": {\"sysLoadPwr\": 2, \"parallel\": {\"J32EZEH4ZG3S0104\": {}, \"J32EZEH4ZG3S0042\": {}}}}"),
   Reply(200, "{\"message\": \"Success\", \"data\": {\"quota\": {}, \"parallel\": {\"J32EZEH4ZG3S0104\": {}, \"J32EZEH4ZG3S0042\": {}, \"J32EZEH4ZG3S0077\": {}}}}"),
   Reply(200, DualText),
   Reply(200, "{\"code\": \"401\", \"message\": \"token expired\"}"),
   Reply(500, "")}

\* what requests.post and requests.get raise: the builtin ConnectionError, a
\* subclass of it two levels down, and classes of requests.exceptions
Failures ==
  {Failure("ConnectionError"), Failure("http.client.RemoteDisconnected"),
   Failure("requests.exceptions.ConnectionError"),
   Failure("requests.exceptions.ReadTimeout")}

Usernames == {"ann@example.org", "bob@example.org"}

Passwords == {"secret", "hunter2", "passwordforR&Duse123"}

AccountSerials == {ProbedMaster, OtherSerial}

MaxRequests == 2

\* an operation on the instance, as the log keeps it
Request(op, r) == [op |-> op, sent |-> r.sent, exc |-> r.exc, result |-> r.result]

\* the instance is constructed; the log starts with the constructor's call
InitAuthorize ==
  /\ \E serialnumber \in AccountSerials :
       \E username \in Usernames : \E password \in Passwords :
         /\ self = EcoflowInit(serialnumber, username, password)
         /\ log = <<[op |-> "__init__",
                     sent |-> [serialnumber |-> serialnumber,
                               username |-> username, password |-> password],
                     exc |-> "", result |-> NoneV]>>
  /\ calls = [c \in Calls |-> IdleOperation]

\* the calls made so far: those recorded and those in progress
Begun == Len(log) - 1 + Cardinality({c \in Calls : calls[c].op # "idle"})

\* a caller enters authorize or fetch_data; the operations in progress are
\* numbered in the order in which they begin
BeginOperation(c, op) ==
  /\ Begun < MaxRequests
  /\ calls[c].op = "idle"
  /\ \A earlier \in Calls : earlier < c => calls[earlier].op # "idle"
  /\ calls' = [calls EXCEPT ![c] = NewOperation(op)]
  /\ UNCHANGED <<self, log>>

\* a statement has run: the operation goes on, or it ends and is recorded
Stepped(c, r) ==
  /\ self' = r.self
  /\ IF r.o.pc = "done"
     THEN /\ log' = Append(log, Request(r.o.op, r.o))
          /\ calls' = [calls EXCEPT ![c] = IdleOperation]
     ELSE /\ calls' = [calls EXCEPT ![c] = r.o]
          /\ UNCHANGED log

BeginAuthorize(c) == BeginOperation(c, "authorize")

\* requests.post returns or raises
LoginPost(c, request) ==
  /\ calls[c].op = "authorize"
  /\ calls[c].pc = "post"
  /\ \E r \in {PostStep(self, calls[c], request)} : Stepped(c, r)

\* any other statement of authorize
Authorize(c) ==
  /\ calls[c].op = "authorize"
  /\ calls[c].pc # "post"
  /\ \E r \in {authorize_step(self, calls[c], NoneV)} : Stepped(c, r)

BeginFetchData(c) == BeginOperation(c, "fetch_data")

\* requests.get returns or raises
FetchGet(c, request) ==
  /\ calls[c].op = "fetch_data"
  /\ calls[c].pc = "get"
  /\ \E r \in {GetStep(self, calls[c], request)} : Stepped(c, r)

\* any other statement of fetch_data
FetchData(c) ==
  /\ calls[c].op = "fetch_data"
  /\ calls[c].pc # "get"
  /\ \E r \in {fetch_data_step(self, calls[c], NoneV)} : Stepped(c, r)

\* get_device called on its own
GetDevice ==
  /\ Begun < MaxRequests
  /\ self' = [self EXCEPT !.device = get_device(self)]
  /\ log' = Append(log, [op |-> "get_device", sent |-> NoneV, exc |-> "",
                         result |-> get_device(self)])
  /\ UNCHANGED calls

NextAuthorize ==
  \/ \E c \in Calls :
       \/ BeginAuthorize(c)
       \/ \E request \in LoginReplies \cup Failures : LoginPost(c, request)
       \/ Authorize(c)
       \/ BeginFetchData(c)
       \/ \E request \in FetchReplies \cup Failures : FetchGet(c, request)
       \/ FetchData(c)
  \/ GetDevice

SpecAuthorize == InitAuthorize /\ [][NextAuthorize]_vars

(***************************************************************************)
(* Vocabulary of the properties                                            *)
(***************************************************************************)
DataOf(response) == Lookup(response.items, "data")

HasParallel(response) == HasKey(DataOf(response).items, "parallel")

ParallelOf(response) == Lookup(DataOf(response).items, "parallel").items

QuotaOf(response) == Lookup(DataOf(response).items, "quota")

Reports == {"JTS1_EMS_CHANGE_REPORT", "JTS1_BP_STA_REPORT", "JTS1_EMS_HEARTBEAT"}

HasAllReports(tree) == \A report \in Reports : HasKey(tree.items, report)

\* the battery packs of a report tree whose text json_loads cannot decode
BrokenPacks(tree) ==
  IF ~HasKey(tree.items, "JTS1_BP_STA_REPORT") THEN {}
  ELSE LET d == Lookup(tree.items, "JTS1_BP_STA_REPORT").items
       IN  {bat \in {d[n].k : n \in 1..Len(d)} :
              Len(bat) > 12 /\ json_loads(Lookup(d, bat)).exc # ""}

WellFormed(tree) == HasAllReports(tree) /\ BrokenPacks(tree) = {}

Ids(sensors) == {sensors[n].k : n \in 1..Len(sensors)}

\* the ids an extractor returned, none if it raised
IdsOf(r) == IF r.exc = "" THEN Ids(r.val) ELSE {}

Suffixed(friendly_name) ==
  EndsWith(friendly_name, "_master") \/ EndsWith(friendly_name, "_slave")

\* the outcome of the same response on an instance that has served no call
OnFreshInstance(response) == Completed(get_sensors(Ecoflow(self.sn), response).fr)

Last == log[Len(log)]

(***************************************************************************)
(* C1: a response whose data.parallel has 0, 1 or at least 3 keys makes    *)
(* _get_sensors return None; it never ends by raising.                     *)
(***************************************************************************)
C1_UnsupportedTopologyAborts ==
  \A n \in 1..Len(log) :
    (HasParallel(log[n].response) /\ Len(ParallelOf(log[n].response)) # 2)
      => log[n].status = "none"

(***************************************************************************)
(* C2: a response whose data.parallel has exactly 2 keys resolves to Dual  *)
(* (signal 2), and afterwards master_sn is the configured serial and       *)
(* master_data the tree stored under it, whatever the order of the keys.   *)
(***************************************************************************)
C2_OwnSerialBecomesMaster ==
  (log # <<>> /\ HasParallel(Last.response) /\ Len(ParallelOf(Last.response)) = 2)
    => /\ Last.serials = 2
       /\ self.master_sn = JStr(self.sn)
       /\ HasKey(ParallelOf(Last.response), self.sn)
       /\ self.master_data = Lookup(ParallelOf(Last.response), self.sn)

(***************************************************************************)
(* C3: a response without a parallel key resolves to Single and returns a  *)
(* sensor map none of whose friendly names ends in _master or _slave, on   *)
(* a fresh instance as on a used one.                                      *)
(***************************************************************************)
C3_SingleYieldsUnsuffixedMap ==
  \A n \in 1..Len(log) :
    (~HasParallel(log[n].response) /\ WellFormed(QuotaOf(log[n].response)))
      => /\ log[n].serials = 0
         /\ log[n].status = "returned"
         /\ \A m \in 1..Len(log[n].sensors) :
              ~Suffixed(log[n].sensors[m].v.friendly_name)

(***************************************************************************)
(* C4: without a parallel key the resolver returns the signal 0 and        *)
(* records data.quota as master_data, without failing.                     *)
(***************************************************************************)
C4_SingleResolvesToQuota ==
  (log # <<>> /\ ~HasParallel(Last.response))
    => /\ Last.serials = 0
       /\ self.master_data = QuotaOf(Last.response)

(***************************************************************************)
(* C5: with two keys first_sn, second_sn under data.parallel the resolver  *)
(* makes first_sn the master if it is the configured serial and second_sn  *)
(* otherwise, the other key the slave, master_data and slave_data the      *)
(* trees under them, and returns the number of keys.                       *)
(***************************************************************************)
C5_RolesFollowFirstKey ==
  (log # <<>> /\ HasParallel(Last.response) /\ Len(ParallelOf(Last.response)) = 2)
    => LET p == ParallelOf(Last.response)
           master == IF p[1].k = self.sn THEN 1 ELSE 2
       IN  /\ Last.serials = Len(p)
           /\ self.master_sn = JStr(p[master].k)
           /\ self.slave_sn = JStr(p[3 - master].k)
           /\ self.master_data = p[master].v
           /\ self.slave_data = p[3 - master].v

(***************************************************************************)
(* C6: in any sequence of calls on one instance the outcome of each call   *)
(* is the outcome the same response has on an instance that served no      *)
(* call before: nothing recorded by an earlier call influences it.         *)
(***************************************************************************)
C6_OutcomeIgnoresEarlierCalls ==
  \A n \in 1..Len(log) : log[n] = OnFreshInstance(log[n].response)

\* a Single response, and a Dual response in the other key order, served
\* after a Dual response has left its assignment on the instance
C6_Witness ==
  /\ Len(log) >= 2
  /\ log[1].status = "returned" /\ log[1].serials = 2
  /\ \/ ~HasParallel(log[2].response)
     \/ /\ log[2].status = "returned"
        /\ ParallelOf(log[2].response)[1].k # ParallelOf(log[1].response)[1].k

(***************************************************************************)
(* C7: two calls in a row with the identical response give identical       *)
(* outcomes: the same ids, the same records, the same values.              *)
(***************************************************************************)
C7_RepeatedCallSameOutput ==
  \A n \in 1..(Len(log) - 1) :
    log[n].response = log[n + 1].response => log[n] = log[n + 1]

C7_Witness ==
  /\ Len(log) >= 2
  /\ log[1].response = log[2].response
  /\ log[2].status = "returned"
  /\ log[2].sensors # <<>>

(***************************************************************************)
(* C8: when two calls on one instance overlap, each call extracts from     *)
(* the assignment and roots of its own response, so it ends as it would    *)
(* have ended alone.                                                       *)
(***************************************************************************)
C8_OverlapUsesOwnResponse ==
  \A c \in Calls :
    calls[c].pc = "done" => Completed(calls[c]) = OnFreshInstance(calls[c].response)

(***************************************************************************)
(* C9: when a report sub-tree is absent from an inverter's root the call   *)
(* still returns a map, with the records of the root extractor and of      *)
(* every extractor whose section is present.                               *)
(***************************************************************************)
\* the ids an inverter's tree contributes from the sections it has
PresentSectionIds(self_sn, inverter_sn, tree) ==
  IdsOf(get_sensors_ems_change(tree, <<>>, inverter_sn, ""))
    \cup IdsOf(get_sensors_battery(tree, <<>>, inverter_sn, ""))
    \cup IdsOf(get_sensors_ems_heartbeat(self_sn, tree, <<>>, inverter_sn, ""))

C9_MissingReportKeepsTheRest ==
  \A n \in 1..Len(log) :
    LET p == ParallelOf(log[n].response)
    IN  (/\ log[n].serials = 2
         /\ \E m \in 1..Len(p) : ~HasAllReports(p[m].v) /\ BrokenPacks(p[m].v) = {})
          => /\ log[n].status = "returned"
             /\ Ids(get_sensors_data(self.sn, log[n].response).val)
                  \subseteq Ids(log[n].sensors)
             /\ \A m \in 1..Len(p) :
                  PresentSectionIds(self.sn, p[m].k, p[m].v) \subseteq Ids(log[n].sensors)

(***************************************************************************)
(* C10: when the text of a recognized battery pack cannot be decoded only  *)
(* that pack is skipped: the call still returns a map, with the records    *)
(* of every other pack.                                                    *)
(***************************************************************************)
\* the bpTemp ids of the packs of an inverter whose text decodes
DecodablePackIds(inverter_sn, tree) ==
  LET d == Lookup(tree.items, "JTS1_BP_STA_REPORT").items
  IN  {inverter_sn \o "_JTS1_BP_STA_REPORT_" \o bat \o "_bpTemp" :
         bat \in {k \in {d[n].k : n \in 1..Len(d)} : Len(k) > 12} \ BrokenPacks(tree)}

C10_BrokenPackSkipsOnlyThatPack ==
  \A n \in 1..Len(log) :
    LET p == ParallelOf(log[n].response)
    IN  (/\ log[n].serials = 2
         /\ \A m \in 1..Len(p) : HasAllReports(p[m].v)
         /\ \E m \in 1..Len(p) : BrokenPacks(p[m].v) # {})
          => /\ log[n].status = "returned"
             /\ \A m \in 1..Len(p) :
                  DecodablePackIds(p[m].k, p[m].v) \subseteq Ids(log[n].sensors)

(***************************************************************************)
(* C11: when two extractor contributions produce the same id the assembled *)
(* map holds exactly one record for it, the one written later in the       *)
(* assembly order, and no error is raised.                                 *)
(***************************************************************************)
\* what each extractor call of a Dual assembly contributes on its own, in
\* the assembly order
Contributions(self_sn, response) ==
  LET p == ParallelOf(response)
      master == IF p[1].k = self_sn THEN 1 ELSE 2
      slave == 3 - master
  IN  <<get_sensors_data(self_sn, response),
        get_sensors_ems_change(p[master].v, <<>>, p[master].k, "_master"),
        get_sensors_battery(p[master].v, <<>>, p[master].k, "_master"),
        get_sensors_ems_heartbeat(self_sn, p[master].v, <<>>, p[master].k, "_master"),
        get_sensors_ems_change(p[slave].v, <<>>, p[slave].k, "_slave"),
        get_sensors_battery(p[slave].v, <<>>, p[slave].k, "_slave"),
        get_sensors_ems_heartbeat(self_sn, p[slave].v, <<>>, p[slave].k, "_slave")>>

AllSucceed(c) == \A i \in 1..Len(c) : c[i].exc = ""

Collide(c) ==
  \E i, j \in 1..Len(c) : i < j /\ Ids(c[i].val) \cap Ids(c[j].val) # {}

\* the record of every id is the one of the last contribution that has it
LaterWins(entry, c) ==
  (AllSucceed(c) /\ Collide(c))
    => /\ entry.status = "returned"
       /\ \A j \in 1..Len(c) : \A k \in Ids(c[j].val) :
            (\A later \in (j + 1)..Len(c) : k \notin Ids(c[later].val))
              => /\ Cardinality({m \in 1..Len(entry.sensors) :
                                   entry.sensors[m].k = k}) = 1
                 /\ Lookup(entry.sensors, k) = Lookup(c[j].val, k)

C11_LaterContributionWins ==
  \A n \in 1..Len(log) :
    log[n].serials = 2
      => LaterWins(log[n], Contributions(self.sn, log[n].response))

\* the root record of bpPwr and a pack's record of bpPwr met under one id
C11_Witness ==
  \E n \in 1..Len(log) :
    /\ log[n].status = "returned"
    /\ self.sn = CollidingSerial
    /\ HasKey(log[n].sensors, CollidingSerial \o "_bpPwr")
    /\ Lookup(log[n].sensors, CollidingSerial \o "_bpPwr").value = JInt(40)
    /\ HasKey(DataOf(log[n].response).items, "bpPwr")
    /\ Lookup(DataOf(log[n].response).items, "bpPwr") = JInt(5)

(***************************************************************************)
(* C12: for a well-formed document the assembled map is exactly the union  *)
(* of the root extractor's output and of the change-report, battery and    *)
(* heartbeat extractors' outputs, run on the master root for Single and on *)
(* the master and the slave root for Dual.                                 *)
(***************************************************************************)
RootIds(self_sn, response) == IdsOf(get_sensors_data(self_sn, response))

\* Single: the root and the three reports of data.quota
SingleIsUnion(entry, self_sn) ==
  (~HasParallel(entry.response) /\ WellFormed(QuotaOf(entry.response)))
    => /\ entry.status = "returned"
       /\ Ids(entry.sensors)
            = RootIds(self_sn, entry.response)
                \cup PresentSectionIds(self_sn, self_sn, QuotaOf(entry.response))

\* Dual: the root and the three reports of each of the two inverters
DualIsUnion(entry, self_sn, p) ==
  (Len(p) = 2 /\ \A m \in 1..Len(p) : WellFormed(p[m].v))
    => /\ entry.status = "returned"
       /\ Ids(entry.sensors)
            = RootIds(self_sn, entry.response)
                \cup PresentSectionIds(self_sn, p[1].k, p[1].v)
                \cup PresentSectionIds(self_sn, p[2].k, p[2].v)
       /\ \A m \in 1..2 :
            {p[m].k \o "_JTS1_EMS_CHANGE_REPORT_bpSoc",
             p[m].k \o "_JTS1_BP_STA_REPORT_" \o PackA \o "_bpTemp",
             p[m].k \o "_JTS1_EMS_HEARTBEAT_mpptHeartBeat_mpptPv_pwrTotal"}
              \subseteq Ids(entry.sensors)

C12_AssembledIsUnion ==
  \A n \in 1..Len(log) :
    /\ SingleIsUnion(log[n], self.sn)
    /\ HasParallel(log[n].response)
         => DualIsUnion(log[n], self.sn, ParallelOf(log[n].response))

(***************************************************************************)
(* C13: every record a per-inverter extractor emits carries the serial of  *)
(* the inverter whose report root it was extracted from; in Dual every     *)
(* record from the slave root carries the slave serial.                    *)
(***************************************************************************)
\* the records of the map under the given ids carry the given serial
CarrySerial(sensors, ids, serial) ==
  \A k \in ids \cap Ids(sensors) : Lookup(sensors, k).serial = serial

C13_SerialIsInverterOfOrigin ==
  \A n \in 1..Len(log) :
    (log[n].status = "returned" /\ log[n].serials = 2)
      => \A m \in 1..2 :
           CarrySerial(log[n].sensors,
                       PresentSectionIds(self.sn,
                                         ParallelOf(log[n].response)[m].k,
                                         ParallelOf(log[n].response)[m].v),
                       ParallelOf(log[n].response)[m].k)

(***************************************************************************)
(* C14: in Dual every record the change-report, battery and heartbeat      *)
(* extractors produce from the master root has a friendly_name ending in   *)
(* _master and every such record from the slave root one ending in _slave, *)
(* so no master record and slave record share a friendly_name.             *)
(***************************************************************************)
FriendlyNames(sensors, ids) ==
  {Lookup(sensors, k).friendly_name : k \in ids \cap Ids(sensors)}

\* the friendly names of the two roots' records end as given and are disjoint
Disambiguated(masterNames, slaveNames) ==
  /\ \A name \in masterNames : EndsWith(name, "_master")
  /\ \A name \in slaveNames : EndsWith(name, "_slave")
  /\ masterNames \cap slaveNames = {}

\* the position under data.parallel of the root the resolver makes the master
MasterOf(self_sn, p) == IF p[1].k = self_sn THEN 1 ELSE 2

C14_DualNamesCarryRole ==
  \A n \in 1..Len(log) :
    (log[n].status = "returned" /\ log[n].serials = 2)
      => LET p == ParallelOf(log[n].response)
             master == MasterOf(self.sn, p)
         IN  Disambiguated(
               FriendlyNames(log[n].sensors,
                             PresentSectionIds(self.sn, p[master].k, p[master].v)),
               FriendlyNames(log[n].sensors,
                             PresentSectionIds(self.sn, p[3 - master].k,
                                               p[3 - master].v)))

\* a Dual map with the same quantity of both inverters, the first key the slave
C14_Witness ==
  \E n \in 1..Len(log) :
    /\ log[n].status = "returned" /\ log[n].serials = 2
    /\ self.sn = ProbedSlave
    /\ ParallelOf(log[n].response)[1].k = ProbedMaster
    /\ Lookup(log[n].sensors,
              ProbedMaster \o "_JTS1_EMS_CHANGE_REPORT_bpSoc").friendly_name
         = "bpSoc_slave"
    /\ Lookup(log[n].sensors,
              ProbedSlave \o "_JTS1_EMS_HEARTBEAT_pcsAPhase_vol").friendly_name
         = "pcsAPhase_vol_master"

(***************************************************************************)
(* C15: every record of every assembled map has a scalar value, never a    *)
(* mapping or an array, whatever the shapes of the values in the document. *)
(***************************************************************************)
C15_ValuesAreScalar ==
  \A n \in 1..Len(log) : \A m \in 1..Len(log[n].sensors) :
    log[n].sensors[m].v.value.t \notin {"dict", "list"}

(***************************************************************************)
(* C16: in every assembled map each key equals the internal_unique_id of   *)
(* the record stored under it, so no two records of one fetch result share *)
(* an internal_unique_id.                                                  *)
(***************************************************************************)
KeyedById(sensors) ==
  /\ \A m \in 1..Len(sensors) : sensors[m].k = sensors[m].v.internal_unique_id
  /\ \A i, j \in 1..Len(sensors) :
       sensors[i].v.internal_unique_id = sensors[j].v.internal_unique_id => i = j

C16_KeyIsInternalUniqueId == \A n \in 1..Len(log) : KeyedById(log[n].sensors)

\* a Dual map with the records of every extractor, two packs per inverter
C16_Witness ==
  \E n \in 1..Len(log) :
    /\ log[n].status = "returned"
    /\ \A serial \in {ProbedMaster, ProbedSlave} : \A bat \in {PackA, PackB} :
         HasKey(log[n].sensors,
                serial \o "_JTS1_BP_STA_REPORT_" \o bat \o "_bpTemp")
    /\ HasKey(log[n].sensors, self.sn \o "_sysLoadPwr")

(***************************************************************************)
(* C17: the root extractor emits a record for a key of data exactly when   *)
(* the key is in the allow-list of 11 keys and its value is neither a      *)
(* mapping nor an array; the record's id is {serial}_{key} with the        *)
(* configured serial, and no other key of data produces a record.          *)
(***************************************************************************)
RootAllowList ==
  {"sysLoadPwr", "sysGridPwr", "mpptPwr", "bpPwr", "online",
   "todayElectricityGeneration", "monthElectricityGeneration",
   "yearElectricityGeneration", "totalElectricityGeneration", "systemName",
   "createTime"}

\* the ids {serial}_{key} of the allow-listed keys of data with a flat value
FlatRootIds(serial, data) ==
  {serial \o "_" \o data[n].k :
     n \in {m \in 1..Len(data) : /\ data[m].k \in RootAllowList
                                 /\ data[m].v.t \notin {"dict", "list"}}}

C17_RootEmitsFlatAllowListed ==
  \A n \in 1..Len(log) :
    log[n].extractor = "data"
      => /\ log[n].exc = ""
         /\ Ids(log[n].sensors) = FlatRootIds(self.sn, DataOf(log[n].document).items)

(***************************************************************************)
(* C18: the change-report extractor emits a record for a key of            *)
(* JTS1_EMS_CHANGE_REPORT exactly when the key is one of the six listed    *)
(* keys or starts with mppt and ends with Code; the record's id is         *)
(* {inverter_sn}_JTS1_EMS_CHANGE_REPORT_{key}.                             *)
(***************************************************************************)
ChangeAllowList ==
  {"bpTotalChgEnergy", "bpTotalDsgEnergy", "bpSoc", "bpOnlineSum",
   "emsCtrlLedBright", "emsWordMode"}

ListedChangeIds(inverter_sn, report) ==
  {inverter_sn \o "_JTS1_EMS_CHANGE_REPORT_" \o report[n].k :
     n \in {m \in 1..Len(report) :
              \/ report[m].k \in ChangeAllowList
              \/ StartsWith(report[m].k, "mppt") /\ EndsWith(report[m].k, "Code")}}

C18_ChangeEmitsListedAndCodes ==
  \A n \in 1..Len(log) :
    (/\ log[n].extractor = "change"
     /\ HasKey(log[n].document.items, "JTS1_EMS_CHANGE_REPORT"))
      => /\ log[n].exc = ""
         /\ Ids(log[n].sensors)
              = ListedChangeIds(log[n].inverter_sn,
                                Lookup(log[n].document.items,
                                       "JTS1_EMS_CHANGE_REPORT").items)

(***************************************************************************)
(* C19: the battery extractor treats a key of JTS1_BP_STA_REPORT as a pack *)
(* exactly when it is longer than 12 characters, numbers the packs 1, 2,   *)
(* ... in encounter order, and emits for pack N one record per allow-      *)
(* listed field of the decoded payload, named with the prefix bpackN_ and  *)
(* with the id {inverter_sn}_JTS1_BP_STA_REPORT_{pack_key}_{field}.        *)
(***************************************************************************)
BatteryAllowList ==
  {"bpPwr", "bpSoc", "bpSoh", "bpVol", "bpAmp", "bpCycles", "bpSysState",
   "bpRemainWatth"}

\* the keys of the report longer than 12 characters, in encounter order
PackKeys(report) == SelectSeq(DictKeys(report), LAMBDA key : Len(key) > 12)

\* the decoded payload of a pack
PayloadOf(report, bat) == json_loads(Lookup(report, bat)).val.items

BatteryId(inverter_sn, bat, field) ==
  inverter_sn \o "_JTS1_BP_STA_REPORT_" \o bat \o "_" \o field

\* the ids of the allow-listed fields of all packs
FieldIds(inverter_sn, report, packs) ==
  UNION {{BatteryId(inverter_sn, packs[N], PayloadOf(report, packs[N])[f].k) :
            f \in {g \in 1..Len(PayloadOf(report, packs[N])) :
                     PayloadOf(report, packs[N])[g].k \in BatteryAllowList}} :
         N \in 1..Len(packs)}

TempIds(inverter_sn, packs) ==
  {BatteryId(inverter_sn, packs[N], "bpTemp") : N \in 1..Len(packs)}

\* the records of pack N carry its number, its fields and their values
PackNamed(entry, report, packs, N) ==
  \A f \in 1..Len(PayloadOf(report, packs[N])) :
    LET field == PayloadOf(report, packs[N])[f].k
        record == Lookup(entry.sensors, BatteryId(entry.inverter_sn, packs[N], field))
    IN  field \in BatteryAllowList
          => /\ record.name = entry.inverter_sn \o "_bpack" \o IntStr(N) \o "_" \o field
             /\ record.friendly_name
                  = "bpack" \o IntStr(N) \o "_" \o field \o entry.inverter_string
             /\ record.value = PayloadOf(report, packs[N])[f].v

PacksNumbered(entry, report, packs) ==
  /\ entry.exc = ""
  /\ Ids(entry.sensors) \ TempIds(entry.inverter_sn, packs)
       = FieldIds(entry.inverter_sn, report, packs)
  /\ \A N \in 1..Len(packs) : PackNamed(entry, report, packs, N)

\* the battery report of a tree
BatteryReportOf(tree) == Lookup(tree.items, "JTS1_BP_STA_REPORT").items

\* an extraction from a tree that has the report, every pack decodable
FromDecodablePacks(entry) ==
  /\ entry.extractor = "battery"
  /\ HasKey(entry.document.items, "JTS1_BP_STA_REPORT")
  /\ BrokenPacks(entry.document) = {}

C19_PacksByKeyLength ==
  \A n \in 1..Len(log) :
    FromDecodablePacks(log[n])
      => PacksNumbered(log[n], BatteryReportOf(log[n].document),
                       PackKeys(BatteryReportOf(log[n].document)))

\* a key of 12 characters stood between the first pack and the second, a
\* key of 13 characters
C19_Witness ==
  \E n \in 1..Len(log) :
    /\ log[n].extractor = "battery" /\ log[n].exc = ""
    /\ HasKey(BatteryReportOf(log[n].document), ShortKey)
    /\ Lookup(log[n].sensors,
              BatteryId(log[n].inverter_sn, ThirteenKey, "bpVol")).friendly_name
         = "bpack2_bpVol" \o log[n].inverter_string
    /\ Lookup(log[n].sensors,
              BatteryId(log[n].inverter_sn, PackB, "bpCycles")).name
         = log[n].inverter_sn \o "_bpack3_bpCycles"

(***************************************************************************)
(* C20: for every recognized pack the extractor emits exactly one derived  *)
(* bpTemp record whose value is the arithmetic mean of the pack's bpTemp   *)
(* array, with unit degree Celsius and the pack's bpackN_ naming; for      *)
(* bpTemp = [20, 22, 24] the value is 22.                                  *)
(***************************************************************************)
RECURSIVE Pow2(_)
Pow2(k) == IF k = 0 THEN 1 ELSE 2 * Pow2(k - 1)

\* a number whose 1024-fold is a whole number
IsFixed(v) == v.t \in {"int", "bool"} \/ (v.t = "float" /\ v.e >= -10)

\* the exact value of such a number, in 1024ths
Fixed(v) ==
  IF v.t = "float" THEN (IF v.neg THEN -1 ELSE 1) * NatVal(v.m) * Pow2(v.e + 10)
  ELSE 1024 * IntOf(v)

RECURSIVE FixedSum(_)
FixedSum(elems) == IF elems = <<>> THEN 0 ELSE Fixed(Head(elems)) + FixedSum(Tail(elems))

\* value is the float that is exactly the sum of temp divided by its length
IsMeanOf(value, temp) ==
  /\ value.t = "float" /\ IsFixed(value)
  /\ Fixed(value) * Len(temp) = FixedSum(temp)

MeanRecorded(entry, report, packs, N) ==
  LET record == Lookup(entry.sensors, BatteryId(entry.inverter_sn, packs[N], "bpTemp"))
      temp == Lookup(PayloadOf(report, packs[N]), "bpTemp").elems
  IN  /\ Cardinality({m \in 1..Len(entry.sensors) :
                        entry.sensors[m].k
                          = BatteryId(entry.inverter_sn, packs[N], "bpTemp")}) = 1
      /\ IsMeanOf(record.value, temp)
      /\ temp = <<JInt(20), JInt(22), JInt(24)>> => record.value = JFloat(22, 1)
      /\ record.unit = JStr("°C")
      /\ record.name = entry.inverter_sn \o "_bpack" \o IntStr(N) \o "_bpTemp"
      /\ record.friendly_name
           = "bpack" \o IntStr(N) \o "_bpTemp" \o entry.inverter_string

MeansRecorded(entry, report, packs) ==
  /\ entry.exc = ""
  /\ \A N \in 1..Len(packs) : MeanRecorded(entry, report, packs, N)

C20_MeanCellTemperature ==
  \A n \in 1..Len(log) :
    FromDecodablePacks(log[n])
      => MeansRecorded(log[n], BatteryReportOf(log[n].document),
                       PackKeys(BatteryReportOf(log[n].document)))

\* means that are whole (22 of 20, 22, 24) and not whole (20.5 of 20, 21, and
\* 24.75 of 25.5, 24)
C20_Witness ==
  \E n \in 1..Len(log) :
    /\ log[n].extractor = "battery" /\ log[n].exc = ""
    /\ Lookup(log[n].sensors,
              BatteryId(log[n].inverter_sn, PackA, "bpTemp")).value = JFloat(22, 1)
    /\ HasKey(log[n].sensors, BatteryId(log[n].inverter_sn, ThirteenKey, "bpTemp"))
    /\ Lookup(log[n].sensors,
              BatteryId(log[n].inverter_sn, ThirteenKey, "bpTemp")).value
         = JFloat(41, 2)
    /\ Lookup(log[n].sensors,
              BatteryId(log[n].inverter_sn, PackB, "bpTemp")).value = JFloat(99, 4)

(***************************************************************************)
(* C21: the heartbeat extractor emits a record for a top-level key of      *)
(* JTS1_EMS_HEARTBEAT exactly when it is one of the five listed keys, and  *)
(* for each of the three phase sub-objects one record for every field,     *)
(* named {phase}_{field}, with no field filtered out.                      *)
(***************************************************************************)
HeartbeatAllowList ==
  {"bpRemainWatth", "emsBpAliveNum", "emsBpPower", "pcsActPwr", "pcsMeterPower"}

PhaseNames == {"pcsAPhase", "pcsBPhase", "pcsCPhase"}

HeartbeatId(inverter_sn, name) == inverter_sn \o "_JTS1_EMS_HEARTBEAT_" \o name

\* the heartbeat report of a tree
HeartbeatOf(tree) == Lookup(tree.items, "JTS1_EMS_HEARTBEAT").items

\* an extraction from a tree whose heartbeat has the three phases
FromThreePhases(entry) ==
  /\ entry.extractor = "heartbeat"
  /\ HasKey(entry.document.items, "JTS1_EMS_HEARTBEAT")
  /\ \A phase \in PhaseNames : HasKey(HeartbeatOf(entry.document), phase)

ScalarIds(inverter_sn, heartbeat) ==
  {HeartbeatId(inverter_sn, heartbeat[n].k) :
     n \in {m \in 1..Len(heartbeat) : heartbeat[m].k \in HeartbeatAllowList}}

PhaseIds(inverter_sn, heartbeat) ==
  UNION {{HeartbeatId(inverter_sn, phase \o "_" \o Lookup(heartbeat, phase).items[f].k) :
            f \in 1..Len(Lookup(heartbeat, phase).items)} : phase \in PhaseNames}

\* the ids of the PV string records and of their total
StringIdsWithTotal(sensors, inverter_sn) ==
  {k \in Ids(sensors) :
     StartsWith(k, HeartbeatId(inverter_sn, "mpptHeartBeat_mpptPv"))}

\* every field of every phase has its record, with its name and its value
PhasesNamed(entry, heartbeat) ==
  \A phase \in PhaseNames : \A f \in 1..Len(Lookup(heartbeat, phase).items) :
    LET field == Lookup(heartbeat, phase).items[f]
        record == Lookup(entry.sensors,
                         HeartbeatId(entry.inverter_sn, phase \o "_" \o field.k))
    IN  /\ record.name = entry.inverter_sn \o "_" \o phase \o "_" \o field.k
        /\ record.friendly_name = phase \o "_" \o field.k \o entry.inverter_string
        /\ record.value = field.v

ScalarsAndPhases(entry, heartbeat) ==
  /\ entry.exc = ""
  /\ Ids(entry.sensors) \ StringIdsWithTotal(entry.sensors, entry.inverter_sn)
       = ScalarIds(entry.inverter_sn, heartbeat)
           \cup PhaseIds(entry.inverter_sn, heartbeat)
  /\ \A k \in ScalarIds(entry.inverter_sn, heartbeat) : k \in Ids(entry.sensors)
  /\ PhasesNamed(entry, heartbeat)

C21_HeartbeatScalarsAndPhases ==
  \A n \in 1..Len(log) :
    FromThreePhases(log[n]) => ScalarsAndPhases(log[n], HeartbeatOf(log[n].document))

\* the five listed keys among keys that resemble them, and phases with
\* three fields, none and one
C21_Witness ==
  \E n \in 1..Len(log) :
    /\ log[n].extractor = "heartbeat" /\ log[n].exc = ""
    /\ HasKey(HeartbeatOf(log[n].document), "PcsActPwr")
    /\ \A key \in HeartbeatAllowList :
         HasKey(log[n].sensors, HeartbeatId(log[n].inverter_sn, key))
    /\ HasKey(log[n].sensors, HeartbeatId(log[n].inverter_sn, "pcsAPhase_actPwr"))
    /\ HasKey(log[n].sensors, HeartbeatId(log[n].inverter_sn, "pcsCPhase_reactPwr"))

(***************************************************************************)
(* C22: with n the length of mpptHeartBeat[0].mpptPv the heartbeat         *)
(* extractor emits for each string i in 1..n one record per field of the   *)
(* string's object, named mpptPv{i}_{key}, and exactly one record          *)
(* mpptPv_pwrTotal whose value is the sum of the pwr fields of all n       *)
(* strings, 0 when n = 0; for pwr values 100, 150, 50 the total is 300.    *)
(***************************************************************************)
\* mpptHeartBeat[0].mpptPv
StringsOf(heartbeat) ==
  Lookup(Lookup(heartbeat, "mpptHeartBeat").elems[1].items, "mpptPv").elems

StringIds(inverter_sn, strings) ==
  UNION {{HeartbeatId(inverter_sn, "mpptHeartBeat_mpptPv" \o IntStr(i) \o "_"
                                     \o strings[i].items[f].k) :
            f \in 1..Len(strings[i].items)} : i \in 1..Len(strings)}

TotalId(inverter_sn) == HeartbeatId(inverter_sn, "mpptHeartBeat_mpptPv_pwrTotal")

\* the sum of the pwr fields of the strings, in 1024ths
RECURSIVE PwrSum(_)
PwrSum(strings) ==
  IF strings = <<>> THEN 0
  ELSE (IF HasKey(Head(strings).items, "pwr")
        THEN Fixed(Lookup(Head(strings).items, "pwr"))
        ELSE 0) + PwrSum(Tail(strings))

\* value is the float that is exactly the sum of the pwr fields
IsTotalOf(value, strings) ==
  /\ value.t = "float" /\ IsFixed(value)
  /\ Fixed(value) = PwrSum(strings)

StringsNamed(entry, strings) ==
  \A i \in 1..Len(strings) : \A f \in 1..Len(strings[i].items) :
    LET field == strings[i].items[f]
        record == Lookup(entry.sensors,
                         HeartbeatId(entry.inverter_sn,
                                     "mpptHeartBeat_mpptPv" \o IntStr(i) \o "_" \o field.k))
    IN  /\ record.name = entry.inverter_sn \o "_mpptPv" \o IntStr(i) \o "_" \o field.k
        /\ record.friendly_name
             = "mpptPv" \o IntStr(i) \o "_" \o field.k \o entry.inverter_string
        /\ record.value = field.v

\* the strings report 100, 150 and 50 W
HundredFiftyAndFifty(strings) ==
  /\ Len(strings) = 3
  /\ \A i \in 1..3 : /\ HasKey(strings[i].items, "pwr")
                      /\ Lookup(strings[i].items, "pwr") = JInt(<<100, 150, 50>>[i])

StringsAndTotal(entry, strings) ==
  /\ entry.exc = ""
  /\ StringIdsWithTotal(entry.sensors, entry.inverter_sn)
       = StringIds(entry.inverter_sn, strings) \cup {TotalId(entry.inverter_sn)}
  /\ StringsNamed(entry, strings)
  /\ Cardinality({m \in 1..Len(entry.sensors) :
                    entry.sensors[m].v.friendly_name
                      = "mpptPv_pwrTotal" \o entry.inverter_string}) = 1
  /\ IsTotalOf(Lookup(entry.sensors, TotalId(entry.inverter_sn)).value, strings)
  /\ HundredFiftyAndFifty(strings)
       => Lookup(entry.sensors, TotalId(entry.inverter_sn)).value = JFloat(300, 1)

C22_StringsAndTotal ==
  \A n \in 1..Len(log) :
    FromThreePhases(log[n])
      => StringsAndTotal(log[n], StringsOf(HeartbeatOf(log[n].document)))

\* three strings of 100, 150 and 50 W give a total of 300
C22_Witness ==
  \E n \in 1..Len(log) :
    /\ log[n].extractor = "heartbeat" /\ log[n].exc = ""
    /\ Len(StringsOf(HeartbeatOf(log[n].document))) = 3
    /\ HasKey(log[n].sensors,
              HeartbeatId(log[n].inverter_sn, "mpptHeartBeat_mpptPv3_amp"))
    /\ Lookup(log[n].sensors, TotalId(log[n].inverter_sn)).value = JFloat(300, 1)

\* two strings of 100.5 and 50.25 W give a total of 150.75
C22_WitnessFractions ==
  \E n \in 1..Len(log) :
    /\ log[n].extractor = "heartbeat" /\ log[n].exc = ""
    /\ HeartbeatOf(log[n].document) = FractionsHeartbeat.items
    /\ Lookup(log[n].sensors, TotalId(log[n].inverter_sn)).value = JFloat(603, 4)

\* no string at all gives a total of 0
C22_WitnessNoStrings ==
  \E n \in 1..Len(log) :
    /\ log[n].extractor = "heartbeat" /\ log[n].exc = ""
    /\ StringsOf(HeartbeatOf(log[n].document)) = <<>>
    /\ Lookup(log[n].sensors, TotalId(log[n].inverter_sn)).value = JFloat(0, 1)

(***************************************************************************)
(* C23: unit inference gives W for a key ending in pwr, Pwr or Power, else *)
(* A for amp or Amp, else % for soc, Soc, soh or Soh, else V for vol or    *)
(* Vol, else Wh for Watth or Energy, else kWh for a key containing         *)
(* Generation, else degree Celsius for a key starting with bpTemp, else no *)
(* unit; case-sensitively, the rules tried in that order.                  *)
(***************************************************************************)
UnitRules ==
  <<[how |-> "suffix", of |-> {"pwr", "Pwr", "Power"}, unit |-> "W"],
    [how |-> "suffix", of |-> {"amp", "Amp"}, unit |-> "A"],
    [how |-> "suffix", of |-> {"soc", "Soc", "soh", "Soh"}, unit |-> "%"],
    [how |-> "suffix", of |-> {"vol", "Vol"}, unit |-> "V"],
    [how |-> "suffix", of |-> {"Watth", "Energy"}, unit |-> "Wh"],
    [how |-> "substring", of |-> {"Generation"}, unit |-> "kWh"],
    [how |-> "prefix", of |-> {"bpTemp"}, unit |-> "°C"]>>

Applies(rule, key) ==
  \E part \in rule.of :
    CASE rule.how = "suffix" -> EndsWith(key, part)
      [] rule.how = "substring" -> Contains(key, part)
      [] rule.how = "prefix" -> StartsWith(key, part)

\* the unit of the first rule that applies, none if no rule does
FirstRuleUnit(key) ==
  IF \E n \in 1..Len(UnitRules) : Applies(UnitRules[n], key)
  THEN JStr(UnitRules[CHOOSE n \in 1..Len(UnitRules) :
                        /\ Applies(UnitRules[n], key)
                        /\ \A m \in 1..(n - 1) : ~Applies(UnitRules[m], key)].unit)
  ELSE NoneV

UnitExamples ==
  [bpAmp |-> JStr("A"), sysLoadPwr |-> JStr("W"),
   totalElectricityGeneration |-> JStr("kWh"), systemName |-> NoneV]

C23_UnitByFirstRule ==
  \A n \in 1..Len(log) :
    log[n].helper = "unit"
      => /\ log[n].result = FirstRuleUnit(log[n].key)
         /\ log[n].key = "bpAmp" => log[n].result = UnitExamples.bpAmp
         /\ log[n].key = "sysLoadPwr" => log[n].result = UnitExamples.sysLoadPwr
         /\ log[n].key = "totalElectricityGeneration"
              => log[n].result = UnitExamples.totalElectricityGeneration
         /\ log[n].key = "systemName" => log[n].result = UnitExamples.systemName

\* a key to which a later rule applies too got the unit of the earlier one
C23_Witness ==
  \E n \in 1..Len(log) :
    /\ log[n].helper = "unit"
    /\ log[n].key = "GenerationPwr"
    /\ log[n].result = JStr("W")

(***************************************************************************)
(* C24: description lookup returns the fixed string for a key that equals  *)
(* one of the table's keys and the raw key itself for every other key,     *)
(* also one that differs from a table key only by case, prefix or suffix.  *)
(***************************************************************************)
DescriptionTable ==
  <<Item("sysLoadPwr", "Hausnetz"), Item("sysGridPwr", "Stromnetz"),
    Item("mpptPwr", "Solarertrag"), Item("bpPwr", "Batterieleistung"),
    Item("bpSoc", "Ladezustand der Batterie"), Item("online", "Online"),
    Item("systemName", "System Name"), Item("createTime", "Installations Datum"),
    Item("bpVol", "Batteriespannung"), Item("bpAmp", "Batteriestrom"),
    Item("bpCycles", "Ladezyklen"),
    Item("bpTemp", "Temperatur der Batteriezellen")>>

C24_DescriptionByExactKey ==
  \A n \in 1..Len(log) :
    log[n].helper = "description"
      => log[n].result
           = JStr(IF HasKey(DescriptionTable, log[n].key)
                  THEN Lookup(DescriptionTable, log[n].key)
                  ELSE log[n].key)

\* a key that differs from a table key by case only came back unchanged
C24_Witness ==
  \E n \in 1..Len(log) :
    /\ log[n].helper = "description"
    /\ log[n].key = "SysLoadPwr"
    /\ log[n].result = JStr("SysLoadPwr")

(***************************************************************************)
(* C25: each per-inverter extractor is all-or-nothing with respect to the  *)
(* accumulating sensor map: if it fails part-way the map passed in is left *)
(* exactly as it was before the call, with none of its records added (the  *)
(* map changes only when the extractor returns).                           *)
(***************************************************************************)
Stepping == calls[StepCall]

C25_FailedExtractorLeavesMap ==
  Stepping.pc \notin {"idle", "returned"} => Stepping.sensors = Stepping.passed

\* an extractor raised after its loops had built records
C25_Witness ==
  /\ Stepping.pc = "raised"
  /\ Stepping.extractor = "battery"
  /\ Stepping.exc = "ZeroDivisionError"
  /\ Stepping.data # <<>>
  /\ Stepping.passed # <<>>

(***************************************************************************)
(* C26: the unit of the derived mpptPv_pwrTotal record is the same for     *)
(* every heartbeat report: it does not depend on the fields of the PV      *)
(* strings or of the phases, on their order, or on the number of strings.  *)
(***************************************************************************)
TotalUnit(sensors, inverter_sn) == Lookup(sensors, TotalId(inverter_sn)).unit

Extracts(self_sn, tree, inverter_sn, inverter_string) ==
  get_sensors_ems_heartbeat(self_sn, tree, <<>>, inverter_sn, inverter_string).exc = ""

C26_TotalUnitSameForEveryReport ==
  \A n \in 1..Len(log) :
    (log[n].extractor = "heartbeat" /\ log[n].exc = "")
      => \A tree \in HeartbeatDocuments :
           Extracts(self.sn, tree, log[n].inverter_sn, log[n].inverter_string)
             => TotalUnit(log[n].sensors, log[n].inverter_sn)
                  = TotalUnit(get_sensors_ems_heartbeat(self.sn, tree, <<>>,
                                                        log[n].inverter_sn,
                                                        log[n].inverter_string).val,
                              log[n].inverter_sn)

(***************************************************************************)
(* C27: authorize leaves the configured credentials unchanged: after any   *)
(* sequence of authorize and fetch calls ecoflow_username and              *)
(* ecoflow_password equal the values passed to the constructor, and the    *)
(* password sent in the login request is the encoding of the configured    *)
(* password.                                                               *)
(***************************************************************************)
Configured == log[1].sent

C27_CredentialsUnchanged ==
  /\ self.ecoflow_username = Configured.username
  /\ self.ecoflow_password = Configured.password
  /\ \A n \in 2..Len(log) :
       log[n].op = "authorize"
         => /\ log[n].sent.email = Configured.username
            /\ log[n].sent.password = b64encode(Encode(Configured.password))

====
